---------------------------- MODULE Spec2Model ----------------------------
(***************************************************************************)
(* clDES: lazy (virtual) parallel composition of discrete-event systems    *)
(* and the monolithic supervisor synthesis built on it.                    *)
(*                                                                         *)
(* A system is a record.  kind = "des" is a concrete automaton (DESystem), *)
(* kind = "proxy" a virtual product (SuperProxy / SyncSysProxy) holding    *)
(* its two operands.  An EventsSet (std::bitset) is a set of event ids, a  *)
(* StatesSet a set of state ids, graph_ the set of <<from, event, to>> of  *)
(* the non-zero bits of the adjacency matrix, bit_graph_ the set of        *)
(* <<row, col>> of the non-zero entries of the boolean matrix.             *)
(***************************************************************************)
EXTENDS Integers, Sequences, FiniteSets

VARIABLES
    aP,              \* SupervisorSynth argument: the plant
    aE,              \* SupervisorSynth argument: the specification
    aNonContr,       \* SupervisorSynth argument: the uncontrollable events
    pc,              \* position inside SupervisorSynth
    virtualsys,      \* the virtual product of aP and aE
    non_contr_bit,   \* uncontrollable events of the plant that are in virtualsys
    p_non_contr_bit, \* uncontrollable events that are in the plant
    c,               \* TransMap: surviving state -> list of <<target, event>>
    rmtable,         \* removed (killed) states
    f,               \* DFS stack of SupervisorSynth (top is the last element)
    rf,              \* stack of the running RemoveBadStates call
    inv_allocated,   \* the inverted graph of the operands is allocated
    virtual_states_, \* virtualsys.virtual_states_ (set: the order is sorted away)
    transtriplet_,   \* virtualsys.transtriplet_: state -> list of <<target, event>>
    statesmap,       \* SynchronizeStage2: the surviving virtual ids, ascending
    trimstates,      \* Trim: the sorted states it kept
    sys,             \* the concrete system under construction / returned
    qsys,            \* system under query (virtual product queries)
    qret,            \* the last query and what it returned
    law,             \* the algebraic law the caller exercises ("none": one call)
    returned,        \* what the caller's earlier calls of SupervisorSynth returned
    expanded,        \* history: the states accepted as survivors, in order
    kill_pushed,     \* history: the states pushed on a stack of RemoveBadStates
    at_call,         \* history: aQ, aC and aRmTable when RemoveBadStates was called
    aSystems,        \* GenBinExprTree argument: the list of automata
    sys_nodes,       \* GenBinExprTree: its vector sys (pointers into nodes_ref)
    cp_sys,          \* GenBinExprTree: the level being paired (pointers)
    nodes_ref        \* GenBinExprTree: every node created, in creation order

vars == <<aP, aE, aNonContr, pc, virtualsys, non_contr_bit, p_non_contr_bit,
          c, rmtable, f, rf, inv_allocated, virtual_states_, transtriplet_,
          statesmap, trimstates, sys, qsys, qret, law, returned, expanded,
          kill_pushed, at_call, aSystems, sys_nodes, cp_sys, nodes_ref>>

\* the variables of GenBinExprTree
treevars == <<aSystems, sys_nodes, cp_sys, nodes_ref>>

\* the history variables of a run of SupervisorSynth
histvars == <<expanded, kill_pushed, at_call>>

-----------------------------------------------------------------------------
(* Bounds of the model *)

\* largest number of states of an enumerated concrete automaton
MaxStates == 2
\* number of event ids the enumerated automata draw from
NumEvents == 2
\* largest number of transitions of an enumerated plant
MaxTransP == 2
\* largest number of transitions of an enumerated specification
MaxTransE == 1
\* largest number of transitions of an operand of a queried virtual product
MaxTransQ == 1
\* transitions of an operand of an inverse query
MaxTransInv == 2

\* Trans returns -1 when there is no transition
NONE == -1

-----------------------------------------------------------------------------
(* Helpers *)

Min(S) == CHOOSE x \in S : \A y \in S : x <= y

RECURSIVE SetToSeq(_)
\* the elements of a set of numbers in ascending order (bit / std::set order)
SetToSeq(S) == IF S = {} THEN <<>>
               ELSE <<Min(S)>> \o SetToSeq(S \ {Min(S)})

Range(s) == {s[i] : i \in 1..Len(s)}

\* bitset operator ^
Xor(a, b) == (a \ b) \cup (b \ a)

\* position (0-based) of x in the ascending sequence s, as a hash map lookup
IndexOf(s, x) == (CHOOSE i \in 1..Len(s) : s[i] = x) - 1


-----------------------------------------------------------------------------
(* Concrete automaton (DESystem): the query contract of a stored automaton *)

\* DESystem{aStatesNumber, aInitState, aMarkedStates} with its transitions
DESystem(aStatesNumber, aInitState, aMarkedStates, aEvents, aGraph) ==
    [kind            |-> "des",
     states_number_  |-> aStatesNumber,
     init_state_     |-> aInitState,
     marked_states_  |-> aMarkedStates,
     events_         |-> aEvents,
     graph_          |-> aGraph]

DESContainsTrans(S, aQ, aEvent) ==
    \E t \in 0..(S.states_number_ - 1) : <<aQ, aEvent, t>> \in S.graph_

DESTrans(S, aQ, aEvent) ==
    IF DESContainsTrans(S, aQ, aEvent)
    THEN CHOOSE t \in 0..(S.states_number_ - 1) : <<aQ, aEvent, t>> \in S.graph_
    ELSE NONE

DESGetStateEvents(S, aQ) ==
    {e \in S.events_ : DESContainsTrans(S, aQ, e)}

\* the inverse index holds the transpose of the forward transitions
DESContainsInvTrans(S, aQ, aEvent) ==
    \E p \in 0..(S.states_number_ - 1) : <<p, aEvent, aQ>> \in S.graph_

DESInvTrans(S, aQ, aEvent) ==
    SetToSeq({p \in 0..(S.states_number_ - 1) : <<p, aEvent, aQ>> \in S.graph_})

DESGetInvStateEvents(S, aQ) ==
    {e \in S.events_ : DESContainsInvTrans(S, aQ, e)}

-----------------------------------------------------------------------------
(* Virtual product (SuperProxy) *)

\* the proxy with the shared events alone as its alphabet
SuperProxySharedAlphabet(aSys0, aSys1) ==
    LET in_both == aSys0.events_ \cap aSys1.events_
    IN  [kind            |-> "proxy",
         sys0_           |-> aSys0,
         sys1_           |-> aSys1,
         states_number_  |-> aSys0.states_number_ * aSys1.states_number_,
         init_state_     |-> aSys1.init_state_ * aSys0.states_number_
                               + aSys0.init_state_,
         n_states_sys0_  |-> aSys0.states_number_,
         only_in_0_      |-> Xor(aSys0.events_, in_both),
         only_in_1_      |-> Xor(aSys1.events_, in_both),
         events_         |-> in_both,
         marked_states_  |-> {q1 * aSys0.states_number_ + q0 :
                                q0 \in aSys0.marked_states_,
                                q1 \in aSys1.marked_states_}]

\* SuperProxy::SuperProxy(aSys0, aSys1, aNonContr)
SuperProxy(aSys0, aSys1) ==
    LET in_both == aSys0.events_ \cap aSys1.events_
    IN  [kind            |-> "proxy",
         sys0_           |-> aSys0,
         sys1_           |-> aSys1,
         states_number_  |-> aSys0.states_number_ * aSys1.states_number_,
         init_state_     |-> aSys1.init_state_ * aSys0.states_number_
                               + aSys0.init_state_,
         n_states_sys0_  |-> aSys0.states_number_,
         only_in_0_      |-> Xor(aSys0.events_, in_both),
         only_in_1_      |-> Xor(aSys1.events_, in_both),
         events_         |-> aSys0.events_ \cup aSys1.events_,
         marked_states_  |-> {q1 * aSys0.states_number_ + q0 :
                                q0 \in aSys0.marked_states_,
                                q1 \in aSys1.marked_states_}]

RECURSIVE ContainsTrans(_, _, _)
RECURSIVE Trans(_, _, _)
RECURSIVE ContainsInvTrans(_, _, _)
RECURSIVE InvTrans(_, _, _)
RECURSIVE GetStateEvents(_, _)
RECURSIVE GetInvStateEvents(_, _)

\* the condition shared by ContainsTrans, Trans, ContainsInvTrans, InvTrans
ProxyEnabled(S, in_x, in_y, aEvent) ==
    \/ (in_x /\ in_y)
    \/ (in_x /\ aEvent \in S.only_in_0_)
    \/ (in_y /\ aEvent \in S.only_in_1_)

\* ContainsTrans without the synchronisation of shared events: an event
\* fires as soon as one operand enables it
ContainsTransEitherSide(S, aQ, aEvent) ==
    IF aEvent \notin S.events_ THEN FALSE
    ELSE \/ ContainsTrans(S.sys0_, aQ % S.n_states_sys0_, aEvent)
         \/ ContainsTrans(S.sys1_, aQ \div S.n_states_sys0_, aEvent)

\* SuperProxy::ContainsTrans
ProxyContainsTrans(S, aQ, aEvent) ==
    IF aEvent \notin S.events_ THEN FALSE
    ELSE LET qx   == aQ % S.n_states_sys0_
             qy   == aQ \div S.n_states_sys0_
             in_x == ContainsTrans(S.sys0_, qx, aEvent)
             in_y == ContainsTrans(S.sys1_, qy, aEvent)
         IN  ProxyEnabled(S, in_x, in_y, aEvent)

\* Trans without the test that the event is enabled in the product
TransUnguarded(S, aQ, aEvent) ==
    IF aEvent \notin S.events_ THEN NONE
    ELSE LET qx   == aQ % S.n_states_sys0_
             qy   == aQ \div S.n_states_sys0_
             in_x == ContainsTrans(S.sys0_, qx, aEvent)
             in_y == ContainsTrans(S.sys1_, qy, aEvent)
         IN  IF in_x /\ in_y
             THEN Trans(S.sys1_, qy, aEvent) * S.n_states_sys0_
                    + Trans(S.sys0_, qx, aEvent)
             ELSE IF in_x
                  THEN qy * S.n_states_sys0_ + Trans(S.sys0_, qx, aEvent)
             ELSE IF in_y
                  THEN Trans(S.sys1_, qy, aEvent) * S.n_states_sys0_ + qx
             ELSE NONE

\* Trans with the two components of the successor exchanged
TransSwapped(S, aQ, aEvent) ==
    IF aEvent \notin S.events_ THEN NONE
    ELSE LET qx   == aQ % S.n_states_sys0_
             qy   == aQ \div S.n_states_sys0_
             in_x == ContainsTrans(S.sys0_, qx, aEvent)
             in_y == ContainsTrans(S.sys1_, qy, aEvent)
         IN  IF ~ProxyEnabled(S, in_x, in_y, aEvent) THEN NONE
             ELSE IF in_x /\ in_y
                  THEN Trans(S.sys0_, qx, aEvent) * S.n_states_sys0_
                         + Trans(S.sys1_, qy, aEvent)
             ELSE IF in_x
                  THEN Trans(S.sys0_, qx, aEvent) * S.n_states_sys0_ + qy
             ELSE qx * S.n_states_sys0_ + Trans(S.sys1_, qy, aEvent)

\* SuperProxy::Trans
ProxyTrans(S, aQ, aEvent) ==
    IF aEvent \notin S.events_ THEN NONE
    ELSE LET qx   == aQ % S.n_states_sys0_
             qy   == aQ \div S.n_states_sys0_
             in_x == ContainsTrans(S.sys0_, qx, aEvent)
             in_y == ContainsTrans(S.sys1_, qy, aEvent)
         IN  IF ~ProxyEnabled(S, in_x, in_y, aEvent) THEN NONE
             ELSE IF in_x /\ in_y
                  THEN Trans(S.sys1_, qy, aEvent) * S.n_states_sys0_
                         + Trans(S.sys0_, qx, aEvent)
             ELSE IF in_x
                  THEN qy * S.n_states_sys0_ + Trans(S.sys0_, qx, aEvent)
             ELSE Trans(S.sys1_, qy, aEvent) * S.n_states_sys0_ + qx

\* SuperProxy::ContainsInvTrans
ProxyContainsInvTrans(S, aQ, aEvent) ==
    IF aEvent \notin S.events_ THEN FALSE
    ELSE LET qx   == aQ % S.n_states_sys0_
             qy   == aQ \div S.n_states_sys0_
             in_x == ContainsInvTrans(S.sys0_, qx, aEvent)
             in_y == ContainsInvTrans(S.sys1_, qy, aEvent)
         IN  ProxyEnabled(S, in_x, in_y, aEvent)

\* for (q0 : a) for (q1 : b) push_back(q1 * n + q0)
RECURSIVE CrossInv(_, _, _)
CrossInv(a, b, n) ==
    IF a = <<>> THEN <<>>
    ELSE [i \in 1..Len(b) |-> b[i] * n + Head(a)] \o CrossInv(Tail(a), b, n)

\* InvTrans without the test that the event is enabled in the product
InvTransUnguarded(S, aQ, aEvent) ==
    IF aEvent \notin S.events_ THEN <<>>
    ELSE LET qx   == aQ % S.n_states_sys0_
             qy   == aQ \div S.n_states_sys0_
             in_x == ContainsInvTrans(S.sys0_, qx, aEvent)
             in_y == ContainsInvTrans(S.sys1_, qy, aEvent)
         IN  IF in_x /\ in_y
             THEN CrossInv(InvTrans(S.sys0_, qx, aEvent),
                           InvTrans(S.sys1_, qy, aEvent),
                           S.n_states_sys0_)
             ELSE IF in_x
                  THEN LET inv_trans_0 == InvTrans(S.sys0_, qx, aEvent)
                       IN  [i \in 1..Len(inv_trans_0) |->
                              qy * S.n_states_sys0_ + inv_trans_0[i]]
             ELSE LET inv_trans_1 == InvTrans(S.sys1_, qy, aEvent)
                  IN  [i \in 1..Len(inv_trans_1) |->
                         inv_trans_1[i] * S.n_states_sys0_ + qx]

\* InvTrans that answers only when both operands have a predecessor
InvTransSharedOnly(S, aQ, aEvent) ==
    IF aEvent \notin S.events_ THEN <<>>
    ELSE LET qx   == aQ % S.n_states_sys0_
             qy   == aQ \div S.n_states_sys0_
             in_x == ContainsInvTrans(S.sys0_, qx, aEvent)
             in_y == ContainsInvTrans(S.sys1_, qy, aEvent)
         IN  IF in_x /\ in_y
             THEN CrossInv(InvTrans(S.sys0_, qx, aEvent),
                           InvTrans(S.sys1_, qy, aEvent),
                           S.n_states_sys0_)
             ELSE <<>>

\* SuperProxy::InvTrans
ProxyInvTrans(S, aQ, aEvent) ==
    IF aEvent \notin S.events_ THEN <<>>
    ELSE LET qx   == aQ % S.n_states_sys0_
             qy   == aQ \div S.n_states_sys0_
             in_x == ContainsInvTrans(S.sys0_, qx, aEvent)
             in_y == ContainsInvTrans(S.sys1_, qy, aEvent)
         IN  IF ~ProxyEnabled(S, in_x, in_y, aEvent) THEN <<>>
             ELSE IF in_x /\ in_y
                  THEN CrossInv(InvTrans(S.sys0_, qx, aEvent),
                                InvTrans(S.sys1_, qy, aEvent),
                                S.n_states_sys0_)
             ELSE IF in_x
                  THEN LET inv_trans_0 == InvTrans(S.sys0_, qx, aEvent)
                       IN  [i \in 1..Len(inv_trans_0) |->
                              qy * S.n_states_sys0_ + inv_trans_0[i]]
             ELSE LET inv_trans_1 == InvTrans(S.sys1_, qy, aEvent)
                  IN  [i \in 1..Len(inv_trans_1) |->
                         inv_trans_1[i] * S.n_states_sys0_ + qx]

\* GetStateEvents as the events the two operand states share alone
GetStateEventsSharedOnly(S, aQ) ==
    GetStateEvents(S.sys0_, aQ % S.n_states_sys0_)
      \cap GetStateEvents(S.sys1_, aQ \div S.n_states_sys0_)

\* GetStateEvents as the union of the events of the two operand states
GetStateEventsUnion(S, aQ) ==
    GetStateEvents(S.sys0_, aQ % S.n_states_sys0_)
      \cup GetStateEvents(S.sys1_, aQ \div S.n_states_sys0_)

\* SuperProxy::GetStateEvents
ProxyGetStateEvents(S, aQ) ==
    LET state_event_0 == GetStateEvents(S.sys0_, aQ % S.n_states_sys0_)
        state_event_1 == GetStateEvents(S.sys1_, aQ \div S.n_states_sys0_)
    IN  (state_event_0 \cap state_event_1)
          \cup (state_event_0 \cap S.only_in_0_)
          \cup (state_event_1 \cap S.only_in_1_)

\* SuperProxy::GetInvStateEvents
ProxyGetInvStateEvents(S, aQ) ==
    LET state_event_0 == GetInvStateEvents(S.sys0_, aQ % S.n_states_sys0_)
        state_event_1 == GetInvStateEvents(S.sys1_, aQ \div S.n_states_sys0_)
    IN  (state_event_0 \cap state_event_1)
          \cup (state_event_0 \cap S.only_in_0_)
          \cup (state_event_1 \cap S.only_in_1_)

(* Virtual dispatch through DESystemBase *)
ContainsTrans(S, aQ, aEvent) ==
    IF S.kind = "des" THEN DESContainsTrans(S, aQ, aEvent)
    ELSE ProxyContainsTrans(S, aQ, aEvent)

Trans(S, aQ, aEvent) ==
    IF S.kind = "des" THEN DESTrans(S, aQ, aEvent)
    ELSE ProxyTrans(S, aQ, aEvent)

ContainsInvTrans(S, aQ, aEvent) ==
    IF S.kind = "des" THEN DESContainsInvTrans(S, aQ, aEvent)
    ELSE ProxyContainsInvTrans(S, aQ, aEvent)

InvTrans(S, aQ, aEvent) ==
    IF S.kind = "des" THEN DESInvTrans(S, aQ, aEvent)
    ELSE ProxyInvTrans(S, aQ, aEvent)

GetStateEvents(S, aQ) ==
    IF S.kind = "des" THEN DESGetStateEvents(S, aQ)
    ELSE ProxyGetStateEvents(S, aQ)

GetInvStateEvents(S, aQ) ==
    IF S.kind = "des" THEN DESGetInvStateEvents(S, aQ)
    ELSE ProxyGetInvStateEvents(S, aQ)


-----------------------------------------------------------------------------
(* SupervisorSynth: one pruning DFS over the virtual product *)

\* std::stack: top() and pop() on the last element
Top(st) == st[Len(st)]
Pop(st) == SubSeq(st, 1, Len(st) - 1)

\* the pushes cut after the first event of q
PushFirstSuccessor(V, q, events, stack, cdom, rm) ==
    IF events = <<>> THEN stack
    ELSE LET fsqe == Trans(V, q, Head(events))
         IN  IF fsqe \notin rm /\ fsqe \notin cdom
             THEN Append(stack, fsqe) ELSE stack

\* the pushes without the test !c.contains(fsqe)
RECURSIVE PushSuccessorsOfSurvivors(_, _, _, _, _, _)
PushSuccessorsOfSurvivors(V, q, events, stack, cdom, rm) ==
    IF events = <<>> THEN stack
    ELSE LET fsqe == Trans(V, q, Head(events))
         IN  PushSuccessorsOfSurvivors(V, q, Tail(events),
                                       IF fsqe \notin rm
                                       THEN Append(stack, fsqe) ELSE stack,
                                       cdom, rm)

\* the successors the else-branch pushes on f, scanning the events of q in
\* ascending bit order: pushed when neither removed nor already in c.  The
\* state q itself has just been inserted in c.
RECURSIVE PushSuccessors(_, _, _, _, _, _)
PushSuccessors(V, q, events, stack, cdom, rm) ==
    IF events = <<>> THEN stack
    ELSE LET fsqe == Trans(V, q, Head(events))
         IN  PushSuccessors(V, q, Tail(events),
                            IF fsqe \notin rm /\ fsqe \notin cdom
                            THEN Append(stack, fsqe) ELSE stack,
                            cdom, rm)

\* c[q]->push_back(std::make_pair(fsqe, event)) for every event of q
RecordedTrans(V, q, events) ==
    [i \in 1..Len(events) |-> <<Trans(V, q, events[i]), events[i]>>]

\* the bad-state test with the plant's events read from the product state
IsBadStateOfProduct(V, P, q, pncb) ==
    LET q_events      == GetStateEvents(V, q)
        in_ncqx       == pncb \cap GetStateEvents(V, q)
        in_ncqx_and_q == in_ncqx \cap q_events
    IN  in_ncqx_and_q # in_ncqx

\* if (in_ncqx_and_q != in_ncqx)
IsBadState(V, P, q, pncb) ==
    LET qx            == q % V.n_states_sys0_
        q_events      == GetStateEvents(V, q)
        in_ncqx       == pncb \cap GetStateEvents(P, qx)
        in_ncqx_and_q == in_ncqx \cap q_events
    IN  in_ncqx_and_q # in_ncqx

\* the inner loop without the test !aRmTable.contains(s)
RECURSIVE VisitPredsUntested(_, _, _)
VisitPredsUntested(preds, stack, rm) ==
    IF preds = <<>> THEN [stack |-> stack, rm |-> rm]
    ELSE VisitPredsUntested(Tail(preds), Append(stack, Head(preds)),
                            rm \cup {Head(preds)})

\* RemoveBadStates, inner loops of one popped x: every predecessor s of x
\* by an event of q_events that is not yet in aRmTable is pushed and
\* inserted, in the order the predecessors are met.
RECURSIVE VisitPreds(_, _, _)
VisitPreds(preds, stack, rm) ==
    IF preds = <<>> THEN [stack |-> stack, rm |-> rm]
    ELSE IF Head(preds) \notin rm
         THEN VisitPreds(Tail(preds), Append(stack, Head(preds)),
                         rm \cup {Head(preds)})
         ELSE VisitPreds(Tail(preds), stack, rm)

\* the loop over q_events cut after its first event
VisitFirstInvEvent(V, x, events, stack, rm) ==
    IF events = <<>> THEN [stack |-> stack, rm |-> rm]
    ELSE VisitPreds(InvTrans(V, x, Head(events)), stack, rm)

\* the loop over the events of q_events, each with its loop over InvTrans
RECURSIVE VisitInvEvents(_, _, _, _, _)
VisitInvEvents(V, x, events, stack, rm) ==
    IF events = <<>> THEN [stack |-> stack, rm |-> rm]
    ELSE LET r == VisitPreds(InvTrans(V, x, Head(events)), stack, rm)
         IN  VisitInvEvents(V, x, Tail(events), r.stack, r.rm)

\* the function c with every key kept
EraseNoKeys(cmap, gone) == cmap

\* the function c without any key (aC.clear())
EraseAllKeys(cmap, gone) == [k \in {} |-> cmap[k]]

\* the function c without the keys in gone (aC.erase(s))
EraseKeys(cmap, gone) == [k \in (DOMAIN cmap) \ gone |-> cmap[k]]

\* history: RemoveBadStates has not been called
NoCall == [aQ |-> NONE, aC |-> << >>, aRmTable |-> {}]

\* lines 222-250: build virtualsys and the two masks, seed f, allocate
SynthStart ==
    /\ pc = "start"
    /\ LET V == SuperProxy(aP, aE)
           pncb == {event \in aNonContr : event \in aP.events_}
       IN  /\ virtualsys' = V
           /\ p_non_contr_bit' = pncb
           /\ non_contr_bit' = {event \in pncb : event \in V.events_}
           /\ f' = <<V.init_state_>>
    /\ c' = << >>
    /\ rmtable' = {}
    /\ inv_allocated' = TRUE
    /\ expanded' = << >>
    /\ kill_pushed' = << >>
    /\ at_call' = NoCall
    /\ pc' = "loop"
    /\ UNCHANGED <<aP, aE, aNonContr, rf, virtual_states_, transtriplet_,
                   statesmap, trimstates, sys, qsys, qret, law, returned,
                   treevars>>

\* lines 252-288, one iteration of while (!f.empty()); the call of
\* RemoveBadStates starts here and its loop runs in RemoveBadStatesStep
SynthLoopStep ==
    /\ pc = "loop"
    /\ f # <<>>
    /\ LET q == Top(f)
       IN  IF q \in rmtable \/ q \in DOMAIN c
           THEN /\ f' = Pop(f)
                /\ UNCHANGED <<c, rmtable, rf, pc, histvars>>
           ELSE IF IsBadState(virtualsys, aP, q, p_non_contr_bit)
           THEN /\ f' = Pop(f)
                /\ rf' = <<q>>
                /\ rmtable' = rmtable \cup {q}
                /\ pc' = "remove"
                /\ kill_pushed' = Append(kill_pushed, q)
                /\ at_call' = [aQ |-> q, aC |-> c, aRmTable |-> rmtable]
                /\ UNCHANGED <<c, expanded>>
           ELSE LET events == SetToSeq(GetStateEvents(virtualsys, q))
                IN  /\ c' = [k \in (DOMAIN c) \cup {q} |->
                               IF k = q
                               THEN RecordedTrans(virtualsys, q, events)
                               ELSE c[k]]
                    /\ f' = PushSuccessors(virtualsys, q, events, Pop(f),
                                           (DOMAIN c) \cup {q}, rmtable)
                    /\ expanded' = Append(expanded, q)
                    /\ UNCHANGED <<rmtable, rf, pc, kill_pushed, at_call>>
    /\ UNCHANGED <<aP, aE, aNonContr, virtualsys, non_contr_bit,
                   p_non_contr_bit, inv_allocated, virtual_states_,
                   transtriplet_, statesmap, trimstates, sys, qsys, qret,
                   law, returned, treevars>>

\* RemoveBadStates lines 183-211, one iteration of while (!f.empty());
\* returns to the main loop when its stack is empty
RemoveBadStatesStep ==
    /\ pc = "remove"
    /\ rf # <<>>
    /\ LET x == Top(rf)
           q_events == GetInvStateEvents(virtualsys, x) \cap non_contr_bit
           r == VisitInvEvents(virtualsys, x, SetToSeq(q_events), Pop(rf),
                               rmtable)
       IN  /\ rf' = r.stack
           /\ rmtable' = r.rm
           /\ c' = EraseKeys(c, r.rm \ rmtable)
           /\ kill_pushed' = kill_pushed
                               \o SubSeq(r.stack, Len(rf), Len(r.stack))
           /\ pc' = IF r.stack = <<>> THEN "loop" ELSE "remove"
    /\ UNCHANGED <<aP, aE, aNonContr, virtualsys, non_contr_bit,
                   p_non_contr_bit, f, inv_allocated, virtual_states_,
                   transtriplet_, statesmap, trimstates, sys, qsys, qret,
                   law, returned, expanded, at_call, treevars>>


\* the exit of the loop without the call of ClearInvertedGraph
SynthLoopExitKeepingInverse ==
    /\ pc = "loop"
    /\ f = <<>>
    /\ rmtable' = {}
    /\ inv_allocated' = inv_allocated
    /\ virtual_states_' = DOMAIN c
    /\ transtriplet_' = c
    /\ c' = << >>
    /\ pc' = "convert"
    /\ UNCHANGED <<aP, aE, aNonContr, virtualsys, non_contr_bit,
                   p_non_contr_bit, f, rf, statesmap, trimstates, sys,
                   qsys, qret, law, returned, histvars, treevars>>

\* lines 290-301: clear rmtable and the inverted graph, move c to virtualsys
SynthLoopExit ==
    /\ pc = "loop"
    /\ f = <<>>
    /\ rmtable' = {}
    /\ inv_allocated' = FALSE
    /\ virtual_states_' = DOMAIN c
    /\ transtriplet_' = c
    /\ c' = << >>
    /\ pc' = "convert"
    /\ UNCHANGED <<aP, aE, aNonContr, virtualsys, non_contr_bit,
                   p_non_contr_bit, f, rf, statesmap, trimstates, sys,
                   qsys, qret, law, returned, histvars, treevars>>

-----------------------------------------------------------------------------
(* Materialisation: SuperProxy::operator DESystem and SynchronizeStage2 *)

\* a default-constructed DESystem
EmptySystem ==
    [kind |-> "des", states_number_ |-> 0, init_state_ |-> 0,
     marked_states_ |-> {}, events_ |-> {}, graph_ |-> {}, bit_graph_ |-> {},
     states_events_ |-> << >>, inv_states_events_ |-> << >>]

\* SynchronizeStage2, "Remap marked states": InsertMarkedState adds the new
\* index of every surviving marked pair to the marked_states_ the proxy has
RemapMarked(V, smap) ==
    LET keys == {s1 * V.n_states_sys0_ + s0 :
                   s0 \in V.sys0_.marked_states_,
                   s1 \in V.sys1_.marked_states_}
    IN  V.marked_states_ \cup
          {IndexOf(smap, key) : key \in keys \cap Range(smap)}

\* the triplets with source and target exchanged, the order of bittriplet_
Stage2TripletsTransposed(tt, smap) ==
    UNION {{<<IndexOf(smap, tt[q][i][1]), tt[q][i][2], IndexOf(smap, q)>> :
              i \in {j \in 1..Len(tt[q]) : tt[q][j][1] \in Range(smap)}} :
           q \in DOMAIN tt}

\* the triplets with the product ids in place of their indices in statesmap
Stage2TripletsUnmapped(tt, smap) ==
    UNION {{<<q, tt[q][i][2], tt[q][i][1]>> :
              i \in {j \in 1..Len(tt[q]) : tt[q][j][1] \in Range(smap)}} :
           q \in DOMAIN tt}

\* SynchronizeStage2, "Calculate transitions": the triplets of graph_
\* (setFromTriplets combines the events of one pair of states)
Stage2Triplets(tt, smap) ==
    UNION {{<<IndexOf(smap, q), tt[q][i][2], IndexOf(smap, tt[q][i][1])>> :
              i \in {j \in 1..Len(tt[q]) : tt[q][j][1] \in Range(smap)}} :
           q \in DOMAIN tt}

\* the bit triplets: the diagonal and, per kept transition, (to, from)
Stage2BitTriplets(tt, smap) ==
    {<<k, k>> : k \in 0..(Len(smap) - 1)} \cup
      {<<t[3], t[1]>> : t \in Stage2Triplets(tt, smap)}

\* operator DESystem(): sort virtual_states_, SynchronizeStage2, move the
\* members of the proxy into the new concrete system
ConvertToDESystem(V, vstates, tt) ==
    LET smap == SetToSeq(vstates)
    IN  [kind               |-> "des",
         states_number_     |-> Len(smap),
         init_state_        |-> V.init_state_,
         marked_states_     |-> RemapMarked(V, smap),
         events_            |-> V.events_,
         graph_             |-> Stage2Triplets(tt, smap),
         bit_graph_         |-> Stage2BitTriplets(tt, smap),
         states_events_     |-> << >>,
         inv_states_events_ |-> << >>]

\* line 307: auto sys = DESystem(virtualsys)
SynthConvert ==
    /\ pc = "convert"
    /\ statesmap' = SetToSeq(virtual_states_)
    /\ sys' = ConvertToDESystem(virtualsys, virtual_states_, transtriplet_)
    /\ virtual_states_' = {}
    /\ transtriplet_' = << >>
    /\ pc' = "trim"
    /\ UNCHANGED <<aP, aE, aNonContr, virtualsys, non_contr_bit,
                   p_non_contr_bit, c, rmtable, f, rf, inv_allocated,
                   trimstates, qsys, qret, law, returned, histvars,
                   treevars>>


-----------------------------------------------------------------------------
(* Trim: accessible and coaccessible part by BFS on bit_graph_ *)

\* y = bit_graph_ * x, one column of the boolean product
SparseProd(bit_graph, x) == {bt[1] : bt \in {b \in bit_graph : b[2] \in x}}

RECURSIVE Nnz(_, _)
\* number of non-zero entries of a matrix held as column -> set of rows
Nnz(m, cols) == IF cols = {} THEN 0
                ELSE LET k == Min(cols)
                     IN  Cardinality(m[k]) + Nnz(m, cols \ {k})

\* BfsCalc_: at most states_number_ products, stopping when the number of
\* accessed states did not grow; host_x and y are column -> set of rows
RECURSIVE BfsCalc_(_, _, _, _, _, _)
BfsCalc_(bit_graph, host_x, y, n_accessed_states, i, n) ==
    IF i >= n THEN y
    ELSE LET y2 == [k \in DOMAIN host_x |-> SparseProd(bit_graph, host_x[k])]
         IN  IF n_accessed_states = Nnz(y2, DOMAIN y2) THEN y2
             ELSE BfsCalc_(bit_graph, y2, y2, Nnz(y2, DOMAIN y2), i + 1, n)

\* Bfs_ from the given initial nodes: initial node -> states it accesses
Bfs_(S, aInitialNodes) ==
    BfsCalc_(S.bit_graph_, [k \in aInitialNodes |-> {k}],
             [k \in aInitialNodes |-> {}], 0, 0, S.states_number_)

\* AccessiblePart: the BFS from init_state_
AccessiblePart(S) == Bfs_(S, {S.init_state_})[S.init_state_]

\* CoaccessiblePart: the marked states and every other state whose BFS
\* accesses a marked state
CoaccessiblePart(S) ==
    LET searching_nodes == (0..(S.states_number_ - 1)) \ S.marked_states_
        accessed == Bfs_(S, searching_nodes)
    IN  S.marked_states_ \cup
          {s \in searching_nodes : accessed[s] \cap S.marked_states_ # {}}

\* TrimStates with the accessible part given
TrimStatesOf(S, accpart) == accpart \cap CoaccessiblePart(S)

\* Trim: the system cut to the states in the set trimmed (rows, then
\* columns, renumbered in ascending order); a new system is built with the
\* size, init_state_, the marked states that are trim, and the cut graph
TrimSystem(S, trimmed) ==
    IF Cardinality(trimmed) = S.states_number_ THEN S
    ELSE LET ts == SetToSeq(trimmed)
         IN  [kind               |-> "des",
              states_number_     |-> Len(ts),
              init_state_        |-> S.init_state_,
              marked_states_     |-> S.marked_states_ \cap trimmed,
              events_            |-> {},
              graph_             |-> {<<IndexOf(ts, t[1]), t[2], IndexOf(ts, t[3])>> :
                                        t \in {g \in S.graph_ :
                                                 g[1] \in trimmed /\ g[3] \in trimmed}},
              bit_graph_         |-> {<<k, k>> : k \in 0..(Len(ts) - 1)},
              states_events_     |-> [k \in 1..Len(ts) |-> {}],
              inv_states_events_ |-> << >>]

\* what AccessiblePart can give.  With init_state_ a state of the system it
\* is the BFS result.  Otherwise Bfs_ sets host_x(init_state_, 0) outside
\* the matrix: a checked build stops there, an unchecked one computes the
\* product from an entry that is not in the matrix; with no states at all
\* the loop of BfsCalc_ does not run and nothing is accessed.
AccessibleOutcomes(S) ==
    IF S.init_state_ \in 0..(S.states_number_ - 1)
    THEN {[abort |-> FALSE, acc |-> AccessiblePart(S)]}
    ELSE {[abort |-> TRUE, acc |-> {}]} \cup
           {[abort |-> FALSE, acc |-> a] : a \in SUBSET (0..(S.states_number_ - 1))}

\* line 310: sys.Trim()
SynthTrim ==
    /\ pc = "trim"
    /\ \E o \in AccessibleOutcomes(sys) :
         IF o.abort
         THEN /\ pc' = "aborted"
              /\ UNCHANGED <<sys, trimstates>>
         ELSE /\ trimstates' = SetToSeq(TrimStatesOf(sys, o.acc))
              /\ sys' = TrimSystem(sys, TrimStatesOf(sys, o.acc))
              /\ pc' = "done"
    /\ UNCHANGED <<aP, aE, aNonContr, virtualsys, non_contr_bit,
                   p_non_contr_bit, c, rmtable, f, rf, inv_allocated,
                   virtual_states_, transtriplet_, statesmap, qsys, qret,
                   law, returned, histvars, treevars>>


-----------------------------------------------------------------------------
(* The inputs: bounded families of concrete automata *)

Events == 0..(NumEvents - 1)

Triples(n) == (0..(n - 1)) \X Events \X (0..(n - 1))

\* deterministic transition sets of at most k transitions out of T
RECURSIVE GraphsUpTo(_, _)
GraphsUpTo(T, k) ==
    IF k = 0 THEN {{}}
    ELSE LET G == GraphsUpTo(T, k - 1)
         IN  G \cup {gt[1] \cup {gt[2]} :
                       gt \in {x \in G \X T :
                                 \A u \in x[1] :
                                   ~(u[1] = x[2][1] /\ u[2] = x[2][2])}}

\* the alphabet of an automaton built by setting transitions
EventsOf(g) == {t[2] : t \in g}

\* automata of 1..MaxStates states; they start in any state (anyInit) or in
\* their state 0
Automata(maxTrans, anyInit) ==
    UNION {{DESystem(n, init, marked, EventsOf(g), g) :
              init \in IF anyInit THEN 0..(n - 1) ELSE {0},
              marked \in SUBSET (0..(n - 1)),
              g \in GraphsUpTo(Triples(n), maxTrans)} :
           n \in 1..MaxStates}

\* the plants start in any of their states
Plants == Automata(MaxTransP, TRUE)

\* the specifications start in their state 0
Specs == Automata(MaxTransE, FALSE)

-----------------------------------------------------------------------------
(* Specification of a run of SupervisorSynth(aP, aE, aNonContr) *)

\* The locals of SupervisorSynth when it is entered with aP, aE, aNonContr
SynthEntry ==
    /\ pc = "start"
    /\ virtualsys = SuperProxy(aP, aE)
    /\ non_contr_bit = {}
    /\ p_non_contr_bit = {}
    /\ c = << >>
    /\ rmtable = {}
    /\ f = << >>
    /\ rf = << >>
    /\ inv_allocated = FALSE
    /\ virtual_states_ = {}
    /\ transtriplet_ = << >>
    /\ statesmap = << >>
    /\ trimstates = << >>
    /\ sys = EmptySystem
    /\ qsys = EmptySystem
    /\ qret = [fn |-> "none", q |-> 0, e |-> 0, ret |-> 0]
    /\ expanded = << >>
    /\ kill_pushed = << >>
    /\ at_call = NoCall
    /\ aSystems = << >>
    /\ sys_nodes = << >>
    /\ cp_sys = << >>
    /\ nodes_ref = << >>

Init ==
    /\ aP \in Plants
    /\ aE \in Specs
    /\ aNonContr \in SUBSET Events
    /\ law = "none"
    /\ returned = << >>
    /\ SynthEntry

Next ==
    \/ SynthStart
    \/ SynthLoopStep
    \/ RemoveBadStatesStep
    \/ SynthLoopExit
    \/ SynthConvert
    \/ SynthTrim

Spec == Init /\ [][Next]_vars


-----------------------------------------------------------------------------
(* Properties of the automaton SupervisorSynth returns *)

\* the states of a system
StatesOf(S) == 0..(S.states_number_ - 1)

\* the state of the virtual product that state r of the returned system
\* stands for: trimstates gives its index before Trim, statesmap the
\* product state with that index
Origin(r) == statesmap[trimstates[r + 1] + 1]

\* the plant component of a product state
PlantPart(q) == q % aP.states_number_

\* the transitions of the product P||E
ProductTransitions ==
    {<<q, e, Trans(virtualsys, q, e)>> :
       <<q, e>> \in {qe \in StatesOf(virtualsys) \X Events :
                       ContainsTrans(virtualsys, qe[1], qe[2])}}

\* the states a set of transitions T reaches from the states in S
RECURSIVE Forward(_, _)
Forward(T, S) ==
    LET S2 == S \cup {t[3] : t \in {u \in T : u[1] \in S}}
    IN  IF S2 = S THEN S ELSE Forward(T, S2)

\* the states from which a set of transitions T reaches a state in S
RECURSIVE Backward(_, _)
Backward(T, S) ==
    LET S2 == S \cup {t[1] : t \in {u \in T : u[3] \in S}}
    IN  IF S2 = S THEN S ELSE Backward(T, S2)

\* C1: every state r of the returned supervisor stands for a pair (qx, qy),
\* and every uncontrollable event the plant enables at qx is enabled at r
C1_Controllable ==
    pc = "done" =>
      \A r \in StatesOf(sys) :
        \A e \in aNonContr :
          DESContainsTrans(aP, PlantPart(Origin(r)), e)
            => DESContainsTrans(sys, r, e)

\* C2: the returned supervisor is trim: every state is reachable from its
\* init state and reaches one of its marked states
C2_Trim ==
    pc = "done" =>
      \A r \in StatesOf(sys) :
        /\ r \in Forward(sys.graph_, {sys.init_state_})
        /\ r \in Backward(sys.graph_, sys.marked_states_)

\* one round of the reference construction on the product states in S: drop
\* the states where the plant enables an uncontrollable event that does not
\* lead into S, then keep what is reachable and leads to a marked state
RefStep(S) ==
    LET inS  == {t \in ProductTransitions : t[1] \in S /\ t[3] \in S}
        good == {q \in S :
                   \A e \in aNonContr :
                     DESContainsTrans(aP, PlantPart(q), e)
                       => \E t \in inS : t[1] = q /\ t[2] = e}
        T    == {t \in inS : t[1] \in good /\ t[3] \in good}
    IN  IF virtualsys.init_state_ \in good
        THEN Forward(T, {virtualsys.init_state_})
               \cap Backward(T, virtualsys.marked_states_ \cap good)
        ELSE {}

\* the rounds repeated until nothing changes
RECURSIVE RefFix(_)
RefFix(S) == IF RefStep(S) = S THEN S ELSE RefFix(RefStep(S))

\* the states of the largest controllable and trim sub-automaton of P||E
RefStates == RefFix(StatesOf(virtualsys))

\* C3: the states and transitions of the returned supervisor are those of
\* the largest controllable and trim sub-automaton of P||E
C3_MaximallyPermissive ==
    pc = "done" =>
      /\ {Origin(r) : r \in StatesOf(sys)} = RefStates
      /\ {<<Origin(t[1]), t[2], Origin(t[3])>> : t \in sys.graph_}
           = {t \in ProductTransitions :
                t[1] \in RefStates /\ t[3] \in RefStates}

\* C4: every state of the returned supervisor stands for a product state
\* reachable from the init state of P||E, and every transition of it stands
\* for a transition of P||E
C4_SubAutomaton ==
    pc = "done" =>
      /\ \A r \in StatesOf(sys) :
           Origin(r) \in Forward(ProductTransitions,
                                 {virtualsys.init_state_})
      /\ \A t \in sys.graph_ :
           /\ t[1] \in StatesOf(sys)
           /\ t[3] \in StatesOf(sys)
           /\ <<Origin(t[1]), t[2], Origin(t[3])>> \in ProductTransitions

\* a supervisor with a transition is returned after states were killed and
\* Trim cut states, so that its states differ from the product states they
\* stand for
C4_Witness ==
    /\ pc = "done"
    /\ sys.graph_ # {}
    /\ Len(trimstates) < Len(statesmap)
    /\ Len(statesmap) < virtualsys.states_number_
    /\ \E r \in StatesOf(sys) : Origin(r) # r

\* C10: when the init state of P||E is not among the survivors at the end of
\* the synthesis loop, the returned automaton has no states
C10_EmptyResult ==
    (pc = "done" /\ virtualsys.init_state_ \notin Range(statesmap))
      => sys.states_number_ = 0

-----------------------------------------------------------------------------
(* Specification of the queries on a virtual product *)

\* operands whose alphabet holds at least the events of their transitions
QueryOperands ==
    UNION {{DESystem(n, 0, {}, alphabet, g) :
              <<g, alphabet>> \in
                {ga \in GraphsUpTo(Triples(n), MaxTransQ) \X SUBSET Events :
                   EventsOf(ga[1]) \subseteq ga[2]}} :
           n \in 1..MaxStates}

\* operands whose alphabet is exactly the events of their transitions
PlainOperands == {X \in QueryOperands : X.events_ = EventsOf(X.graph_)}

\* products of two concrete operands, and products with a product operand
\* on the left and on the right
QuerySystems ==
    {SuperProxy(X, Y) : X \in QueryOperands, Y \in QueryOperands}
      \cup {SuperProxy(SuperProxy(X, Y), Z) :
              X \in PlainOperands, Y \in PlainOperands, Z \in PlainOperands}
      \cup {SuperProxy(Z, SuperProxy(X, Y)) :
              X \in PlainOperands, Y \in PlainOperands, Z \in PlainOperands}

\* no query is in progress
NoQuery == [fn |-> "none", q |-> 0, e |-> 0, ret |-> 0]

InitVP ==
    /\ qsys \in QuerySystems
    /\ qret = NoQuery
    /\ inv_allocated = FALSE
    /\ pc = "query"
    /\ law = "none"
    /\ returned = << >>
    /\ expanded = << >>
    /\ kill_pushed = << >>
    /\ at_call = NoCall
    /\ aSystems = << >>
    /\ sys_nodes = << >>
    /\ cp_sys = << >>
    /\ nodes_ref = << >>
    /\ aP = EmptySystem
    /\ aE = EmptySystem
    /\ aNonContr = {}
    /\ virtualsys = EmptySystem
    /\ non_contr_bit = {}
    /\ p_non_contr_bit = {}
    /\ c = << >>
    /\ rmtable = {}
    /\ f = << >>
    /\ rf = << >>
    /\ virtual_states_ = {}
    /\ transtriplet_ = << >>
    /\ statesmap = << >>
    /\ trimstates = << >>
    /\ sys = EmptySystem

notquery == <<aP, aE, aNonContr, pc, virtualsys, non_contr_bit,
              p_non_contr_bit, c, rmtable, f, rf, virtual_states_,
              transtriplet_, statesmap, trimstates, sys, qsys, law,
              returned, histvars, treevars>>

\* SuperProxy::AllocateInvertedGraph: forwarded to both operands
VPAllocateInvertedGraph ==
    /\ pc = "query"
    /\ qret = NoQuery
    /\ ~inv_allocated
    /\ inv_allocated' = TRUE
    /\ UNCHANGED <<notquery, qret>>

VPContainsTrans ==
    /\ pc = "query"
    /\ qret = NoQuery
    /\ \E q \in StatesOf(qsys), e \in Events :
         qret' = [fn |-> "ContainsTrans", q |-> q, e |-> e,
                  ret |-> ContainsTrans(qsys, q, e)]
    /\ UNCHANGED <<notquery, inv_allocated>>

VPTrans ==
    /\ pc = "query"
    /\ qret = NoQuery
    /\ \E q \in StatesOf(qsys), e \in Events :
         qret' = [fn |-> "Trans", q |-> q, e |-> e,
                  ret |-> Trans(qsys, q, e)]
    /\ UNCHANGED <<notquery, inv_allocated>>

VPGetStateEvents ==
    /\ pc = "query"
    /\ qret = NoQuery
    /\ \E q \in StatesOf(qsys) :
         qret' = [fn |-> "GetStateEvents", q |-> q, e |-> 0,
                  ret |-> GetStateEvents(qsys, q)]
    /\ UNCHANGED <<notquery, inv_allocated>>

VPContainsInvTrans ==
    /\ pc = "query"
    /\ qret = NoQuery
    /\ inv_allocated
    /\ \E q \in StatesOf(qsys), e \in Events :
         qret' = [fn |-> "ContainsInvTrans", q |-> q, e |-> e,
                  ret |-> ContainsInvTrans(qsys, q, e)]
    /\ UNCHANGED <<notquery, inv_allocated>>

VPInvTrans ==
    /\ pc = "query"
    /\ qret = NoQuery
    /\ inv_allocated
    /\ \E q \in StatesOf(qsys), e \in Events :
         qret' = [fn |-> "InvTrans", q |-> q, e |-> e,
                  ret |-> InvTrans(qsys, q, e)]
    /\ UNCHANGED <<notquery, inv_allocated>>

VPGetInvStateEvents ==
    /\ pc = "query"
    /\ qret = NoQuery
    /\ inv_allocated
    /\ \E q \in StatesOf(qsys) :
         qret' = [fn |-> "GetInvStateEvents", q |-> q, e |-> 0,
                  ret |-> GetInvStateEvents(qsys, q)]
    /\ UNCHANGED <<notquery, inv_allocated>>

\* the caller takes the answer of the query in progress
VPReturn ==
    /\ pc = "query"
    /\ qret # NoQuery
    /\ qret' = NoQuery
    /\ UNCHANGED <<notquery, inv_allocated>>

NextVP ==
    \/ VPAllocateInvertedGraph
    \/ VPContainsTrans
    \/ VPTrans
    \/ VPGetStateEvents
    \/ VPContainsInvTrans
    \/ VPInvTrans
    \/ VPGetInvStateEvents
    \/ VPReturn

SpecVP == InitVP /\ [][NextVP]_vars


-----------------------------------------------------------------------------
(* Specification of the inverse queries on products of larger operands *)

\* operands with up to MaxTransInv transitions, so that a state of an
\* operand can have several predecessors by one event
InverseOperands ==
    UNION {{DESystem(n, 0, {}, EventsOf(g), g) :
              g \in GraphsUpTo(Triples(n), MaxTransInv)} :
           n \in 1..MaxStates}

InverseQuerySystems ==
    QuerySystems
      \cup {SuperProxy(X, Y) : X \in InverseOperands, Y \in InverseOperands}

InitVPInv ==
    /\ qsys \in InverseQuerySystems
    /\ qret = NoQuery
    /\ inv_allocated = FALSE
    /\ pc = "query"
    /\ law = "none"
    /\ returned = << >>
    /\ expanded = << >>
    /\ kill_pushed = << >>
    /\ at_call = NoCall
    /\ aSystems = << >>
    /\ sys_nodes = << >>
    /\ cp_sys = << >>
    /\ nodes_ref = << >>
    /\ aP = EmptySystem
    /\ aE = EmptySystem
    /\ aNonContr = {}
    /\ virtualsys = EmptySystem
    /\ non_contr_bit = {}
    /\ p_non_contr_bit = {}
    /\ c = << >>
    /\ rmtable = {}
    /\ f = << >>
    /\ rf = << >>
    /\ virtual_states_ = {}
    /\ transtriplet_ = << >>
    /\ statesmap = << >>
    /\ trimstates = << >>
    /\ sys = EmptySystem

NextVPInv ==
    \/ VPAllocateInvertedGraph
    \/ VPContainsInvTrans
    \/ VPInvTrans
    \/ VPGetInvStateEvents
    \/ VPReturn

SpecVPInv == InitVPInv /\ [][NextVPInv]_vars


-----------------------------------------------------------------------------
(* Properties of the queries on a virtual product *)

\* the operands of the queried product and the two components of a state
QX == qsys.sys0_
QY == qsys.sys1_
XPart(q) == q % QX.states_number_
YPart(q) == q \div QX.states_number_

\* the rule of the composition: an event of both alphabets needs both
\* operands, an event of one alphabet needs the operand that has it
ComposedEnabled(q, e) ==
    \/ /\ e \in QX.events_ \cap QY.events_
       /\ ContainsTrans(QX, XPart(q), e)
       /\ ContainsTrans(QY, YPart(q), e)
    \/ /\ e \in QX.events_ \ QY.events_
       /\ ContainsTrans(QX, XPart(q), e)
    \/ /\ e \in QY.events_ \ QX.events_
       /\ ContainsTrans(QY, YPart(q), e)

\* C5: ContainsTrans(q, e) of a virtual product is true exactly when the
\* rule of the composition enables e at q = (qx, qy); a shared event enabled
\* on one side only is not enabled
C5_CompositionRule ==
    qret.fn = "ContainsTrans" =>
      /\ qret.ret <=> ComposedEnabled(qret.q, qret.e)
      /\ ( /\ qret.e \in QX.events_ \cap QY.events_
           /\ ContainsTrans(QX, XPart(qret.q), qret.e)
                # ContainsTrans(QY, YPart(qret.q), qret.e) )
           => ~qret.ret

\* ContainsTrans answered false for a shared event that only the first
\* operand, itself a product, enables
C5_Witness ==
    /\ qret.fn = "ContainsTrans"
    /\ QX.kind = "proxy"
    /\ qret.e \in QX.events_ \cap QY.events_
    /\ ContainsTrans(QX, XPart(qret.q), qret.e)
    /\ ~ContainsTrans(QY, YPart(qret.q), qret.e)
    /\ qret.ret = FALSE

\* C6: ContainsTrans(q, e) is true exactly when Trans(q, e) is a state and
\* not NONE; for an event outside the alphabet of the product ContainsTrans
\* and ContainsInvTrans are false, Trans is NONE and InvTrans is empty
C6_TransDefined ==
    /\ qret.fn = "ContainsTrans" =>
         /\ qret.ret <=> (Trans(qsys, qret.q, qret.e) # NONE)
         /\ qret.e \notin qsys.events_ => qret.ret = FALSE
    /\ qret.fn = "Trans" =>
         /\ (qret.ret # NONE) <=> ContainsTrans(qsys, qret.q, qret.e)
         /\ qret.e \notin qsys.events_ => qret.ret = NONE
    /\ qret.fn = "ContainsInvTrans" =>
         (qret.e \notin qsys.events_ => qret.ret = FALSE)
    /\ qret.fn = "InvTrans" =>
         (qret.e \notin qsys.events_ => qret.ret = << >>)

\* Trans answered with a state, in a product with a product operand that
\* does not have every event
C6_Witness ==
    /\ qret.fn = "Trans"
    /\ qret.ret # NONE
    /\ QX.kind = "proxy"
    /\ qsys.events_ # Events

\* C7: GetStateEvents(q) is exactly the set of the events e with
\* ContainsTrans(q, e), all of them in the alphabet, at every depth of
\* products whose concrete operands keep their state events in the alphabet
C7_StateEventsMask ==
    qret.fn = "GetStateEvents" =>
      /\ qret.ret = {e \in Events : ContainsTrans(qsys, qret.q, e)}
      /\ qret.ret \subseteq qsys.events_

\* GetStateEvents of a product with a product operand gave some events, but
\* not every event that an operand enables
C7_Witness ==
    /\ qret.fn = "GetStateEvents"
    /\ QY.kind = "proxy"
    /\ qret.ret # {}
    /\ qret.ret # GetStateEvents(QX, XPart(qret.q))
                    \cup GetStateEvents(QY, YPart(qret.q))

\* C8: a successor q' = Trans(q, e) of q = qy * X.n_states + qx is a state
\* of the product; for a shared event its components are X.Trans(qx, e) and
\* Y.Trans(qy, e); an event of X alone leaves qy, an event of Y alone qx
C8_SuccessorEncoding ==
    (qret.fn = "Trans" /\ qret.ret # NONE) =>
      LET q == qret.q
          e == qret.e
      IN  /\ qret.ret \in 0..(QX.states_number_ * QY.states_number_ - 1)
          /\ e \in QX.events_ \cap QY.events_ =>
               /\ XPart(qret.ret) = Trans(QX, XPart(q), e)
               /\ YPart(qret.ret) = Trans(QY, YPart(q), e)
          /\ e \in QX.events_ \ QY.events_ =>
               /\ XPart(qret.ret) = Trans(QX, XPart(q), e)
               /\ YPart(qret.ret) = YPart(q)
          /\ e \in QY.events_ \ QX.events_ =>
               /\ XPart(qret.ret) = XPart(q)
               /\ YPart(qret.ret) = Trans(QY, YPart(q), e)

\* Trans moved both components on a shared event, in a product of at least
\* two by two states
C8_Witness ==
    /\ qret.fn = "Trans"
    /\ qret.ret # NONE
    /\ qret.e \in QX.events_ \cap QY.events_
    /\ QX.states_number_ >= 2
    /\ QY.states_number_ >= 2
    /\ XPart(qret.ret) # XPart(qret.q)
    /\ YPart(qret.ret) # YPart(qret.q)

\* C9: after AllocateInvertedGraph, every state q with Trans(q, e) = q' is
\* an element of InvTrans(q', e), for products of products too
C9_InverseContainsForward ==
    (inv_allocated /\ qret.fn = "InvTrans") =>
      \A q \in StatesOf(qsys) :
        Trans(qsys, q, qret.e) = qret.q => q \in Range(qret.ret)

\* InvTrans of a product with a product operand gave a predecessor other
\* than the state itself
C9_Witness ==
    /\ inv_allocated
    /\ qret.fn = "InvTrans"
    /\ QX.kind = "proxy"
    /\ qret.ret # << >>
    /\ qret.q \notin Range(qret.ret)
    /\ \E q \in StatesOf(qsys) : Trans(qsys, q, qret.e) = qret.q

-----------------------------------------------------------------------------
(* Specification of the runs of SupervisorSynth on the inputs of the test
   program and of its scenarios *)

\* the events the test program declares
a0 == 0
a1 == 1
b0 == 2
b1 == 3

\* the plant of the test program
TestPlant ==
    DESystem(4, 0, {0}, {a0, a1, b0, b1},
             {<<0, a0, 1>>, <<0, a1, 2>>, <<1, b0, 0>>, <<1, a1, 3>>,
              <<2, b1, 0>>, <<2, a0, 3>>, <<3, b1, 1>>, <<3, b0, 2>>})

\* the specification of the test program
TestSpec ==
    DESystem(2, 0, {0, 1}, {b0, a1}, {<<0, b0, 1>>, <<1, a1, 0>>})

\* the uncontrollable events of the test program
TestNonContr == {b0, b1}

\* a specification of one marked initial state with a self-loop on every
\* event of the alphabet of P
IdentitySpec(P) ==
    DESystem(1, 0, {0}, P.events_, {<<0, e, 0>> : e \in P.events_})

\* P is trim: it has states, and each of them is reached from the initial
\* state and reaches a marked state
IsTrim(P) ==
    /\ P.states_number_ > 0
    /\ StatesOf(P) = Forward(P.graph_, {P.init_state_})
                       \cap Backward(P.graph_, P.marked_states_)

\* a plant of one state with a self-loop on b0
LoopPlant(marked) == DESystem(1, 0, marked, {b0}, {<<0, b0, 0>>})

\* a specification of one state and no event
NoEventSpec(marked) == DESystem(1, 0, marked, {}, {})

\* the arguments of the calls: <<aP, aE, aNonContr>>
ScenarioInputs ==
    {<<P, IdentitySpec(P), U>> :
       P \in {A \in Plants : IsTrim(A)}, U \in SUBSET Events}
    \cup {<<TestPlant, IdentitySpec(TestPlant), U>> :
            U \in SUBSET TestPlant.events_}
    \cup {<<TestPlant, TestSpec, TestNonContr>>}
    \cup {<<LoopPlant(mp), NoEventSpec(me), TestNonContr>> :
            mp \in SUBSET {0}, me \in SUBSET {0}}

InitScen ==
    /\ \E in \in ScenarioInputs :
         /\ aP = in[1]
         /\ aE = in[2]
         /\ aNonContr = in[3]
    /\ law = "none"
    /\ returned = << >>
    /\ SynthEntry

SpecScen == InitScen /\ [][Next]_vars

-----------------------------------------------------------------------------
(* Properties of the runs on the scenario inputs *)

\* the call has the inputs of the scenario of a required uncontrollable
\* event: the one-state plant with the b0 self-loop, the specification of
\* one state and no event, b0 and b1 uncontrollable
RequiredEventInput ==
    /\ \E mp \in SUBSET {0} : aP = LoopPlant(mp)
    /\ \E me \in SUBSET {0} : aE = NoEventSpec(me)
    /\ aNonContr = TestNonContr

\* C11 as stated: on these inputs the init state is killed and the returned
\* automaton is empty
C11_InitKilled ==
    RequiredEventInput =>
      /\ virtualsys.init_state_ \notin DOMAIN c
      /\ pc = "done" => sys.states_number_ = 0

\* C11: on these inputs b0 is an event of the plant alone, so the composition
\* enables it: the init state is never killed, and the call returns the
\* one-state automaton with the b0 self-loop when the plant state and the
\* specification state are marked, and the empty automaton when one of them
\* is not
C11_RequiredEventEnabled ==
    RequiredEventInput =>
      /\ virtualsys.init_state_ \notin rmtable
      /\ ContainsTrans(virtualsys, virtualsys.init_state_, b0)
      /\ pc = "done" =>
           IF aP.marked_states_ = {0} /\ aE.marked_states_ = {0}
           THEN /\ sys.states_number_ = 1
                /\ sys.init_state_ = 0
                /\ sys.marked_states_ = {0}
                /\ sys.graph_ = {<<0, b0, 0>>}
           ELSE sys.states_number_ = 0

\* the call on the marked one-state plant and specification returned the
\* plant's state with its self-loop
C11_Witness ==
    /\ RequiredEventInput
    /\ pc = "done"
    /\ aP.marked_states_ = {0}
    /\ aE.marked_states_ = {0}
    /\ sys.graph_ = {<<0, b0, 0>>}
    /\ rmtable = {}

\* the call has a trim plant and the identity specification of its alphabet
IdentityInput == IsTrim(aP) /\ aE = IdentitySpec(aP)

\* C12: for a trim plant and the identity specification the returned
\* automaton equals the plant (states, init state, marked states and
\* transitions), whatever the uncontrollable events
C12_IdentitySpec ==
    (IdentityInput /\ pc = "done") =>
      /\ sys.states_number_ = aP.states_number_
      /\ sys.init_state_ = aP.init_state_
      /\ sys.marked_states_ = aP.marked_states_
      /\ sys.graph_ = aP.graph_

\* the call on the 4-state plant of the test program and its identity
\* specification returned, with b0 and b1 uncontrollable
C12_Witness ==
    /\ pc = "done"
    /\ aP = TestPlant
    /\ aE = IdentitySpec(TestPlant)
    /\ aNonContr = TestNonContr
    /\ sys.states_number_ = 4
    /\ Cardinality(sys.graph_) = 8

\* the call has the inputs of the test program
TestInput == aP = TestPlant /\ aE = TestSpec /\ aNonContr = TestNonContr

\* C13 as stated: on the inputs of the test program the returned supervisor
\* has at most 4 states and the init state survives
C13_AtMostFour ==
    (TestInput /\ pc = "done") =>
      /\ sys.states_number_ <= 4
      /\ virtualsys.init_state_ \in Range(statesmap)
      /\ sys.states_number_ > 0

\* C13: on the inputs of the test program the returned supervisor has at
\* most 6 states and the init state survives
C13_AtMostSix ==
    (TestInput /\ pc = "done") =>
      /\ sys.states_number_ <= 6
      /\ virtualsys.init_state_ \in Range(statesmap)
      /\ sys.states_number_ > 0

\* the call on the inputs of the test program returned 6 states after it
\* killed 2
C13_Witness ==
    /\ TestInput
    /\ pc = "done"
    /\ sys.states_number_ = 6
    /\ virtualsys.states_number_ = 8

\* the transitions of a system over its alphabet
TransitionsOf(S) ==
    {<<q, e, Trans(S, q, e)>> :
       <<q, e>> \in {qe \in StatesOf(S) \X S.events_ :
                       ContainsTrans(S, qe[1], qe[2])}}

\* C14: on the inputs of the test program the call returns the automaton the
\* test program expects: 6 states with the transitions 0 -a0-> 1, 1 -b0-> 4,
\* 2 -b1-> 0, 2 -a0-> 3, 3 -b1-> 1, 3 -b0-> 5, 4 -a1-> 2, 5 -b1-> 4, which
\* are the reachable product states other than the killed (1,1) and (3,1),
\* numbered in ascending order
C14_TestOracle ==
    (TestInput /\ pc = "done") =>
      /\ sys.states_number_ = 6
      /\ sys.graph_ = {<<0, a0, 1>>, <<1, b0, 4>>, <<2, b1, 0>>, <<2, a0, 3>>,
                       <<3, b1, 1>>, <<3, b0, 5>>, <<4, a1, 2>>, <<5, b1, 4>>}
      /\ Range(statesmap) =
           Forward(TransitionsOf(virtualsys), {virtualsys.init_state_})
             \ {1 * 4 + 1, 1 * 4 + 3}
      /\ \A i \in 1..Len(statesmap) : \A j \in 1..Len(statesmap) :
           i < j => statesmap[i] < statesmap[j]
      /\ \A r \in StatesOf(sys) : Origin(r) = statesmap[r + 1]

\* the call on the inputs of the test program returned an automaton of 8
\* transitions
C14_Witness ==
    /\ TestInput
    /\ pc = "done"
    /\ Cardinality(sys.graph_) = 8
    /\ sys.init_state_ = 0

-----------------------------------------------------------------------------
(* Properties of the materialised automaton: sys when operator DESystem()
   has returned and Trim has not run yet (pc = "trim") *)

\* the surviving product ids of the materialised automaton
Survivors == Range(statesmap)

\* the dense index of q among the ids in S
Rank(S, q) == Cardinality({s \in S : s < q})

\* C18: the init state of the materialised automaton is the rank of the init
\* state of the product among the survivors
C18_InitRanked ==
    (pc = "trim" /\ virtualsys.init_state_ \in Survivors) =>
      sys.init_state_ = Rank(Survivors, virtualsys.init_state_)

\* C19: the marked states of the materialised automaton are exactly the ranks
\* of the survivors whose plant part and specification part are marked
C19_MarkedExact ==
    pc = "trim" =>
      sys.marked_states_ =
        {Rank(Survivors, q) :
           q \in {s \in Survivors :
                    /\ s % aP.states_number_ \in aP.marked_states_
                    /\ s \div aP.states_number_ \in aE.marked_states_}}

\* the transitions SynchronizeStage2 has to emit for the survivors S and the
\* recorded transitions tt: one per recorded (q', e) of a survivor q whose
\* target q' is a survivor
ExpectedGraph(S, tt) ==
    UNION {{<<Rank(S, q), tt[q][i][2], Rank(S, tt[q][i][1])>> :
              i \in {j \in 1..Len(tt[q]) : tt[q][j][1] \in S}} :
           q \in DOMAIN tt \cap S}

\* C20: materialisation numbers the survivors by an order-preserving
\* bijection onto 0 .. |survivors| - 1, and the automaton it builds has the
\* transition rank[q] --e--> rank[q'] exactly when (q', e) was recorded for
\* the survivor q and q' is a survivor; the events between one pair of states
\* are the union of the recorded ones
C20_MaterialisedTransitions ==
    [][pc = "convert" =>
         /\ Len(statesmap') = Cardinality(virtual_states_)
         /\ \A q \in virtual_states_ :
              statesmap'[Rank(virtual_states_, q) + 1] = q
         /\ sys'.states_number_ = Cardinality(virtual_states_)
         /\ sys'.graph_ = ExpectedGraph(virtual_states_, transtriplet_)
         /\ \A r1 \in StatesOf(sys') : \A r2 \in StatesOf(sys') :
              {t[2] : t \in {u \in sys'.graph_ : u[1] = r1 /\ u[3] = r2}}
                = {p[2] : p \in {x \in Range(transtriplet_[statesmap'[r1 + 1]]) :
                                   x[1] = statesmap'[r2 + 1]}}]_vars

\* an automaton was materialised whose states are not numbered as the
\* product states they stand for, and a recorded transition of a survivor
\* into a killed state was dropped
C20_Witness ==
    /\ pc = "trim"
    /\ sys.graph_ # {}
    /\ \E r \in StatesOf(sys) : statesmap[r + 1] # r
    /\ \E q \in Survivors : \E e \in GetStateEvents(virtualsys, q) :
         Trans(virtualsys, q, e) \notin Survivors

-----------------------------------------------------------------------------
(* Specification of two calls of SupervisorSynth in a row, as a caller makes
   them to compare the two supervisors: on a product of plants and on the
   product of the same plants nested or ordered differently, and on the
   supervisor that the first call returned *)

\* the operands of the products of two plants
PairOperands == Automata(MaxTransE, TRUE)

\* the operands of the products of four plants: their state 0 is marked and
\* they have one transition, from their init state to their last state
TreeOperands ==
    {A \in Automata(MaxTransE, TRUE) :
       /\ A.marked_states_ = {0}
       /\ \E e \in Events :
            A.graph_ = {<<A.init_state_, e, A.states_number_ - 1>>}}

\* GenBinExprTree of the list of four plants: the pairs first, then the root
BalancedTree(A, B, C, D) == SuperProxy(SuperProxy(A, B), SuperProxy(C, D))

\* the product of four plants taken one plant at a time
LeftTree(A, B, C, D) == SuperProxy(SuperProxy(SuperProxy(A, B), C), D)

\* the arguments of the first call: <<law, aP, aE, aNonContr>>
FirstCalls ==
    {<<"commute", SuperProxy(P1, P2), IdentitySpec(SuperProxy(P1, P2)), {}>> :
       P1 \in PairOperands, P2 \in PairOperands}
    \cup {<<"assoc", BalancedTree(A, B, C, D),
            IdentitySpec(BalancedTree(A, B, C, D)), U>> :
            A \in TreeOperands, B \in TreeOperands, C \in TreeOperands,
            D \in TreeOperands, U \in {{}}}
    \cup {<<"idem", P, E, U>> :
            P \in Automata(MaxTransP, FALSE), E \in Specs,
            U \in {{}, Events}}

InitAlg ==
    /\ \E in \in FirstCalls :
         /\ law = in[1]
         /\ aP = in[2]
         /\ aE = in[3]
         /\ aNonContr = in[4]
    /\ returned = << >>
    /\ SynthEntry

\* the plant of the second call
SecondPlant ==
    CASE law = "commute" -> SuperProxy(aP.sys1_, aP.sys0_)
      [] law = "assoc"   -> LeftTree(aP.sys0_.sys0_, aP.sys0_.sys1_,
                                     aP.sys1_.sys0_, aP.sys1_.sys1_)
      [] law = "idem"    -> sys

\* the specification of the second call
SecondSpec ==
    CASE law = "commute" -> IdentitySpec(SecondPlant)
      [] law = "assoc"   -> IdentitySpec(SecondPlant)
      [] law = "idem"    -> sys

\* the caller keeps the supervisor the first call returned and calls
\* SupervisorSynth again
SynthAgain ==
    /\ pc = "done"
    /\ law # "none"
    /\ returned = << >>
    /\ returned' = <<sys>>
    /\ aP' = SecondPlant
    /\ aE' = SecondSpec
    /\ pc' = "start"
    /\ virtualsys' = SuperProxy(SecondPlant, SecondSpec)
    /\ non_contr_bit' = {}
    /\ p_non_contr_bit' = {}
    /\ c' = << >>
    /\ rmtable' = {}
    /\ f' = << >>
    /\ rf' = << >>
    /\ inv_allocated' = FALSE
    /\ virtual_states_' = {}
    /\ transtriplet_' = << >>
    /\ statesmap' = << >>
    /\ trimstates' = << >>
    /\ sys' = EmptySystem
    /\ UNCHANGED <<aNonContr, law, qsys, qret, histvars, treevars>>

NextAlg == Next \/ SynthAgain

SpecAlg == InitAlg /\ [][NextAlg]_vars

-----------------------------------------------------------------------------
(* Properties of the supervisors of two calls *)

\* the image of the id q under the renaming h of the states of an automaton;
\* an id that is not one of its states is left as it is
Renamed(h, q) == IF q \in DOMAIN h THEN h[q] ELSE q

\* the automata A and B are isomorphic: a bijection between their states
\* takes the init state, the marked states and the transitions of A to those
\* of B
Isomorphic(A, B) ==
    /\ A.states_number_ = B.states_number_
    /\ \E h \in [StatesOf(A) -> StatesOf(B)] :
         /\ \A r1 \in StatesOf(A) : \A r2 \in StatesOf(A) :
              h[r1] = h[r2] => r1 = r2
         /\ A.states_number_ > 0 => Renamed(h, A.init_state_) = B.init_state_
         /\ {Renamed(h, m) : m \in A.marked_states_} = B.marked_states_
         /\ {<<Renamed(h, t[1]), t[2], Renamed(h, t[3])>> : t \in A.graph_}
              = B.graph_

\* the second call has returned
BothReturned == pc = "done" /\ returned # << >>

\* C15: without uncontrollable events, the supervisor of the plant P1||P2
\* under its identity specification is isomorphic to the one of P2||P1
C15_Commutative ==
    (law = "commute" /\ BothReturned) => Isomorphic(returned[1], sys)

C17_Idempotent ==
    (law = "idem" /\ BothReturned) => Isomorphic(returned[1], sys)


-----------------------------------------------------------------------------
(* Specification of a run of GenBinExprTree(aSystems) *)

\* the longest list of systems
MaxList == 9

\* the systems the lists are made of
ListOperands == {LoopPlant({0}), NoEventSpec({0})}

\* every variable of SupervisorSynth but pc
synthvars == <<aP, aE, aNonContr, virtualsys, non_contr_bit, p_non_contr_bit,
               c, rmtable, f, rf, inv_allocated, virtual_states_,
               transtriplet_, statesmap, trimstates, sys, qsys, qret, law,
               returned, histvars>>

\* GenBinExprTree is entered with aSystems; sys and nodes_ref are empty
InitTree ==
    /\ \E n \in 0..MaxList : aSystems \in [1..n -> ListOperands]
    /\ sys_nodes = << >>
    /\ cp_sys = << >>
    /\ nodes_ref = << >>
    /\ pc = "tree_leaves"
    /\ aP = EmptySystem
    /\ aE = EmptySystem
    /\ aNonContr = {}
    /\ virtualsys = EmptySystem
    /\ non_contr_bit = {}
    /\ p_non_contr_bit = {}
    /\ c = << >>
    /\ rmtable = {}
    /\ f = << >>
    /\ rf = << >>
    /\ inv_allocated = FALSE
    /\ virtual_states_ = {}
    /\ transtriplet_ = << >>
    /\ statesmap = << >>
    /\ trimstates = << >>
    /\ sys = EmptySystem
    /\ qsys = EmptySystem
    /\ qret = [fn |-> "none", q |-> 0, e |-> 0, ret |-> 0]
    /\ law = "none"
    /\ returned = << >>
    /\ expanded = << >>
    /\ kill_pushed = << >>
    /\ at_call = NoCall

\* lines 327-331, one iteration of for (auto s : aSystems): a copy of s is
\* a node, pushed on sys and on nodes_ref
TreeLeaf ==
    /\ pc = "tree_leaves"
    /\ Len(nodes_ref) < Len(aSystems)
    /\ nodes_ref' = Append(nodes_ref,
                           [node |-> "DESystem",
                            sys  |-> aSystems[Len(nodes_ref) + 1]])
    /\ sys_nodes' = Append(sys_nodes, Len(nodes_ref) + 1)
    /\ UNCHANGED <<pc, aSystems, cp_sys, synthvars>>

\* the for loop is over
TreeLeavesEnd ==
    /\ pc = "tree_leaves"
    /\ Len(nodes_ref) = Len(aSystems)
    /\ pc' = "tree_outer"
    /\ UNCHANGED <<treevars, synthvars>>

\* the level moves to cp_sys and its last entry goes to the next level
\* without a partner
TreeLevelDroppingOdd ==
    /\ pc = "tree_outer"
    /\ Len(sys_nodes) # 1
    /\ IF Len(sys_nodes) % 2 # 0
       THEN /\ cp_sys' = Pop(sys_nodes)
            /\ sys_nodes' = << >>
       ELSE /\ cp_sys' = sys_nodes
            /\ sys_nodes' = << >>
    /\ pc' = "tree_inner"
    /\ UNCHANGED <<aSystems, nodes_ref, synthvars>>

\* lines 332-339, while (sys.size() != 1): sys is moved to cp_sys, which
\* leaves it empty, and the last entry of an odd level goes back to sys
TreeLevel ==
    /\ pc = "tree_outer"
    /\ Len(sys_nodes) # 1
    /\ IF Len(sys_nodes) % 2 # 0
       THEN /\ cp_sys' = Pop(sys_nodes)
            /\ sys_nodes' = <<Top(sys_nodes)>>
       ELSE /\ cp_sys' = sys_nodes
            /\ sys_nodes' = << >>
    /\ pc' = "tree_inner"
    /\ UNCHANGED <<aSystems, nodes_ref, synthvars>>

\* lines 341-351, one iteration of while (!cp_sys.empty()): lhs and rhs
\* are popped from the back of cp_sys and their proxy is a new node
TreePair ==
    /\ pc = "tree_inner"
    /\ cp_sys # << >>
    /\ LET lhs == Top(cp_sys)
           rhs == Top(Pop(cp_sys))
       IN  /\ nodes_ref' = Append(nodes_ref,
                                  [node |-> "SyncSysProxy",
                                   lhs  |-> lhs,
                                   rhs  |-> rhs])
           /\ sys_nodes' = Append(sys_nodes, Len(nodes_ref) + 1)
           /\ cp_sys' = Pop(Pop(cp_sys))
    /\ UNCHANGED <<pc, aSystems, synthvars>>

\* cp_sys is empty: back to the test of the outer loop
TreeLevelEnd ==
    /\ pc = "tree_inner"
    /\ cp_sys = << >>
    /\ pc' = "tree_outer"
    /\ UNCHANGED <<treevars, synthvars>>

\* line 353: return std::make_pair(sys[0], nodes_ref)
TreeReturn ==
    /\ pc = "tree_outer"
    /\ Len(sys_nodes) = 1
    /\ pc' = "tree_done"
    /\ UNCHANGED <<treevars, synthvars>>

NextTree ==
    \/ TreeLeaf
    \/ TreeLeavesEnd
    \/ TreeLevel
    \/ TreePair
    \/ TreeLevelEnd
    \/ TreeReturn

SpecTree == InitTree /\ [][NextTree]_vars

\* the function runs in one thread and each of its steps is taken
SpecTreeFair == SpecTree /\ WF_vars(NextTree)

-----------------------------------------------------------------------------
(* Properties of the tree GenBinExprTree returns *)

\* the root of the returned pair
TreeRoot == sys_nodes[1]

\* the leaves below node i, from left to right
RECURSIVE LeavesBelow(_)
LeavesBelow(i) ==
    IF nodes_ref[i].node = "DESystem" THEN <<i>>
    ELSE LeavesBelow(nodes_ref[i].lhs) \o LeavesBelow(nodes_ref[i].rhs)

\* the depths of the leaves below node i, which is at depth d
RECURSIVE LeafDepths(_, _)
LeafDepths(i, d) ==
    IF nodes_ref[i].node = "DESystem" THEN {d}
    ELSE LeafDepths(nodes_ref[i].lhs, d + 1)
           \cup LeafDepths(nodes_ref[i].rhs, d + 1)

\* C21: the tree GenBinExprTree returns for a list of n >= 1 automata is
\* balanced to within one level: the depths of any two of its leaves
\* differ by at most 1
C21_Balanced ==
    pc = "tree_done" =>
      \A d1, d2 \in LeafDepths(TreeRoot, 0) : d1 - d2 <= 1

\* the returned tree: one root, every input a leaf exactly once, n - 1
\* proxies, 2n - 1 nodes in the node list
TreeShape ==
    LET n      == Len(aSystems)
        leaves == LeavesBelow(TreeRoot)
    IN  /\ Len(sys_nodes) = 1
        /\ Len(leaves) = n
        /\ Range(leaves) = 1..n
        /\ \A i \in 1..n : nodes_ref[i] = [node |-> "DESystem",
                                           sys  |-> aSystems[i]]
        /\ Cardinality({i \in 1..Len(nodes_ref) :
                          nodes_ref[i].node = "SyncSysProxy"}) = n - 1
        /\ Len(nodes_ref) = 2 * n - 1

\* a step that creates a proxy pairs two neighbours of the level cp_sys
PairsNeighbours ==
    (pc = "tree_inner" /\ Len(nodes_ref') = Len(nodes_ref) + 1) =>
      \E i \in 1..(Len(cp_sys) - 1) :
        /\ nodes_ref'[Len(nodes_ref')].lhs = cp_sys[i + 1]
        /\ nodes_ref'[Len(nodes_ref')].rhs = cp_sys[i]

\* C22: for every non-empty list GenBinExprTree terminates with exactly one
\* root; each input automaton is a leaf exactly once, n - 1 proxies are
\* created, each of two neighbours of the current level, and the returned
\* node list holds all 2n - 1 nodes
C22_TreeBuilt ==
    /\ (pc = "tree_leaves" /\ Len(aSystems) >= 1)
         ~> (pc = "tree_done" /\ TreeShape)
    /\ [][PairsNeighbours]_vars

C22_Witness ==
    /\ pc = "tree_done"
    /\ Len(aSystems) = 9
    /\ Len(nodes_ref) = 17


-----------------------------------------------------------------------------
(* Properties of the synthesis loop *)

\* the function has returned, or was aborted
Returned == pc \in {"done", "aborted"}

\* C23: the inverse index is scoped. AllocateInvertedGraph is called on
\* virtualsys before the first inverse query (every step of RemoveBadStates
\* finds it allocated), no inverse query follows ClearInvertedGraph (once
\* cleared it is not allocated again and RemoveBadStates does not run), and
\* it is cleared when the function returns, on every path
C23_ScopedInverseIndex ==
    /\ [](pc = "remove" => inv_allocated)
    /\ [][(~inv_allocated /\ pc # "start")
            => (~inv_allocated' /\ pc' # "remove")]_vars
    /\ [](Returned => ~inv_allocated)

\* the call that killed its initial state at the first step has returned
C23_Witness ==
    /\ pc = "done"
    /\ ~inv_allocated
    /\ expanded = << >>
    /\ kill_pushed # << >>
    /\ kill_pushed[1] = virtualsys.init_state_

\* no entry of the sequence s occurs twice
NoDuplicate(s) == \A i, j \in 1..Len(s) : s[i] = s[j] => i = j

\* the loops of SupervisorSynth are running
InLoop == pc \in {"loop", "remove"}

\* what is left to do in the loops: every state can be expanded once and
\* pushed by RemoveBadStates once, an expansion pushes at most one state per
\* event on the frontier, and the entries of the two stacks are popped
LoopMeasure ==
    (2 * virtualsys.states_number_ - Len(expanded) - Len(kill_pushed))
      * (Cardinality(virtualsys.events_) + 1)
    + Len(f) + Len(rf) + (IF InLoop THEN 1 ELSE 0)

\* C24: the main loop of SupervisorSynth and every call of RemoveBadStates
\* terminate: a running call of RemoveBadStates has a step to take, as the
\* main loop always has, every step of the loops decreases LoopMeasure,
\* which is never negative; and over the whole run no state is expanded as a
\* survivor twice and no state is pushed on a stack of RemoveBadStates twice
C24_Termination ==
    /\ [](pc = "remove" => rf # << >>)
    /\ [](InLoop => LoopMeasure >= 0)
    /\ [][InLoop => LoopMeasure' < LoopMeasure]_vars
    /\ [](NoDuplicate(expanded) /\ NoDuplicate(kill_pushed))

\* the run is over; two states were expanded and two were pushed by
\* RemoveBadStates, one of them after it had been expanded
C24_Witness ==
    /\ pc = "done"
    /\ Len(expanded) >= 2
    /\ Len(kill_pushed) >= 2
    /\ \E i \in 1..Len(expanded) : expanded[i] \in Range(kill_pushed)

\* the states of virtualsys reachable from its initial state
ReachableV ==
    Forward(TransitionsOf(virtualsys), {virtualsys.init_state_})

\* C25: at every step of the synthesis loop survivors \cup killed is a set
\* of states of virtualsys reachable from its initial state, and no state
\* ever leaves the union
C25_WithinReachable ==
    /\ [](InLoop => ((DOMAIN c) \cup rmtable) \subseteq ReachableV)
    /\ [][(InLoop /\ InLoop')
            => ((DOMAIN c) \cup rmtable) \subseteq ((DOMAIN c') \cup rmtable')
         ]_vars


\* the transitions of virtualsys by the uncontrollable events non_contr_bit
NonContrTransitions ==
    {t \in TransitionsOf(virtualsys) : t[2] \in non_contr_bit}

\* C25, amended: at every step of the synthesis loop survivors is a set of
\* states of virtualsys reachable from its initial state, killed is a set of
\* reachable states and of states from which a reachable state is reached
\* by uncontrollable transitions, and no state ever leaves the union
C25_SurvivorsReachable ==
    /\ [](InLoop => /\ (DOMAIN c) \subseteq ReachableV
                    /\ rmtable \subseteq
                         Backward(NonContrTransitions, ReachableV))
    /\ [][(InLoop /\ InLoop')
            => ((DOMAIN c) \cup rmtable) \subseteq ((DOMAIN c') \cup rmtable')
         ]_vars

\* a state that is not reachable is killed while a survivor is kept
C25_Witness ==
    /\ InLoop
    /\ rmtable \ ReachableV # {}
    /\ DOMAIN c # {}


-----------------------------------------------------------------------------
(* Properties of the stored tables of the returned automaton *)

\* the events on the transitions of S that leave state q
OutEvents(S, q) == {t[2] : t \in {g \in S.graph_ : g[1] = q}}

\* C26: the automaton SupervisorSynth returns satisfies the invariants of a
\* stored automaton: for every state q its states_events_[q] is the union
\* of the events on the transitions that leave q, and its events_ is the
\* union of states_events_[q] over all its states
C26_DataModelInvariants ==
    pc = "done" =>
      /\ Len(sys.states_events_) = sys.states_number_
      /\ \A q \in StatesOf(sys) :
           sys.states_events_[q + 1] = OutEvents(sys, q)
      /\ sys.events_ =
           UNION {sys.states_events_[q + 1] : q \in StatesOf(sys)}


-----------------------------------------------------------------------------
(* Specification of a call of Synchronize(aSys0, aSys1) *)

\* Synchronize, lines 42-46: the conversion of a new proxy of the operands,
\* whose virtual_states_ and transtriplet_ are empty
Synchronize(aSys0, aSys1) ==
    ConvertToDESystem(SuperProxy(aSys0, aSys1), {}, << >>)

\* Synchronize is entered with the operands aP and aE
InitSync ==
    /\ aP \in Plants
    /\ aE \in Specs
    /\ pc = "sync"
    /\ sys = EmptySystem
    /\ aNonContr = {}
    /\ virtualsys = EmptySystem
    /\ non_contr_bit = {}
    /\ p_non_contr_bit = {}
    /\ c = << >>
    /\ rmtable = {}
    /\ f = << >>
    /\ rf = << >>
    /\ inv_allocated = FALSE
    /\ virtual_states_ = {}
    /\ transtriplet_ = << >>
    /\ statesmap = << >>
    /\ trimstates = << >>
    /\ qsys = EmptySystem
    /\ qret = [fn |-> "none", q |-> 0, e |-> 0, ret |-> 0]
    /\ law = "none"
    /\ returned = << >>
    /\ expanded = << >>
    /\ kill_pushed = << >>
    /\ at_call = NoCall
    /\ aSystems = << >>
    /\ sys_nodes = << >>
    /\ cp_sys = << >>
    /\ nodes_ref = << >>

\* lines 42-46: sys = DESystem(SyncSysProxy{aSys0, aSys1}); return sys
SyncCall ==
    /\ pc = "sync"
    /\ sys' = Synchronize(aP, aE)
    /\ pc' = "sync_done"
    /\ UNCHANGED <<aP, aE, aNonContr, virtualsys, non_contr_bit,
                   p_non_contr_bit, c, rmtable, f, rf, inv_allocated,
                   virtual_states_, transtriplet_, statesmap, trimstates,
                   qsys, qret, law, returned, histvars, treevars>>

NextSync == SyncCall

SpecSync == InitSync /\ [][NextSync]_vars

\* C27: the automaton Synchronize(A, B) returns has the states of the
\* virtual product of A and B with the same numbering, and for every state
\* q and event e the same state events, the same successor and the same
\* inverse state events as the virtual product
C27_EagerEqualsLazy ==
    pc = "sync_done" =>
      LET V == SuperProxy(aP, aE)
      IN  /\ sys.states_number_ = V.states_number_
          /\ \A q \in StatesOf(V) :
               /\ DESGetStateEvents(sys, q) = GetStateEvents(V, q)
               /\ DESGetInvStateEvents(sys, q) = GetInvStateEvents(V, q)
               /\ \A e \in V.events_ :
                    DESTrans(sys, q, e) = Trans(V, q, e)


-----------------------------------------------------------------------------
(* Properties of the steps of the synthesis loop *)

\* the step with which a call of RemoveBadStates returns
RemoveReturns == pc = "remove" /\ pc' = "loop"

\* the states from which q0 is reached by uncontrollable transitions alone
NonContrPredecessors(q0) == Backward(NonContrTransitions, {q0})

\* C28: when RemoveBadStates(q0) returns, killed is its value at the call
\* united with q0 and every state of virtualsys from which q0 is reached
\* along transitions by events of non_contr_bit; the survivors are those of
\* the call that are not killed, with their recorded transitions unchanged
C28_KillClosure ==
    [][RemoveReturns =>
         /\ rmtable' = at_call.aRmTable
                         \cup NonContrPredecessors(at_call.aQ)
         /\ DOMAIN c' = (DOMAIN at_call.aC) \ rmtable'
         /\ \A q \in DOMAIN c' : c'[q] = at_call.aC[q]
      ]_vars

\* a call has returned that killed two states or more, a survivor among them
C28_Witness ==
    /\ pc = "loop"
    /\ at_call.aQ # NONE
    /\ (DOMAIN at_call.aC) \cap rmtable # {}
    /\ Cardinality(rmtable \ at_call.aRmTable) >= 2


\* the step that accepts the popped state as a survivor
Expands == pc = "loop" /\ Len(expanded') = Len(expanded) + 1

\* C29: when the popped state q is accepted as a survivor, its list gets
\* one pair (Trans(q, e), e) for every event e of GetStateEvents(q), in
\* ascending order of the events, whether the target is killed, a survivor
\* or neither; and the targets that are neither killed nor survivors at that
\* moment (q is a survivor then) are pushed on the frontier, in that order
C29_RecordedTransitions ==
    [][Expands =>
         LET q       == Top(f)
             known   == rmtable \cup (DOMAIN c) \cup {q}
             IsNew(p) == p[1] \notin known
             targets == [i \in 1..Len(SelectSeq(c'[q], IsNew)) |->
                           SelectSeq(c'[q], IsNew)[i][1]]
         IN  /\ q \notin DOMAIN c
             /\ DOMAIN c' = (DOMAIN c) \cup {q}
             /\ {p[2] : p \in Range(c'[q])} = GetStateEvents(virtualsys, q)
             /\ Len(c'[q]) = Cardinality(GetStateEvents(virtualsys, q))
             /\ \A i, j \in 1..Len(c'[q]) :
                  i < j => c'[q][i][2] < c'[q][j][2]
             /\ \A i \in 1..Len(c'[q]) :
                  c'[q][i][1] = Trans(virtualsys, q, c'[q][i][2])
             /\ f' = Pop(f) \o targets
      ]_vars

\* the state expanded last has two recorded transitions, one to a state that
\* was known, and the other target is on top of the frontier
C29_Witness ==
    /\ pc = "loop"
    /\ expanded # << >>
    /\ f # << >>
    /\ LET q == expanded[Len(expanded)]
       IN  /\ q \in DOMAIN c
           /\ Len(c[q]) >= 2
           /\ \E i \in 1..Len(c[q]) : c[q][i][1] = Top(f)
           /\ \E i \in 1..Len(c[q]) :
                c[q][i][1] \in rmtable \cup (DOMAIN c)


-----------------------------------------------------------------------------
(* Properties of Trim *)

\* the call of Trim on a system whose initial state and marked states are
\* states of the system
TrimsWellFormed ==
    /\ pc = "trim"
    /\ pc' = "done"
    /\ sys.init_state_ \in StatesOf(sys)
    /\ sys.marked_states_ \subseteq StatesOf(sys)

\* the states of S that are reached from its initial state and reach a
\* marked state
TrimSet(S) ==
    Forward(S.graph_, {S.init_state_}) \cap Backward(S.graph_, S.marked_states_)

\* C30: Trim keeps the states that are accessible and coaccessible, numbers
\* them densely in ascending order, and maps the initial state, the marked
\* states and both ends of every transition by that numbering; when every
\* state is kept the automaton is unchanged
C30_TrimRenumbers ==
    [][TrimsWellFormed =>
         LET T == TrimSet(sys)
         IN  /\ sys'.states_number_ = Cardinality(T)
             /\ T # {} => sys'.init_state_ = Rank(T, sys.init_state_)
             /\ sys'.marked_states_ =
                  {Rank(T, m) : m \in sys.marked_states_ \cap T}
             /\ sys'.graph_ =
                  {<<Rank(T, t[1]), t[2], Rank(T, t[3])>> :
                     t \in {g \in sys.graph_ : g[1] \in T /\ g[3] \in T}}
             /\ T = StatesOf(sys) => sys' = sys
      ]_vars


-----------------------------------------------------------------------------
(* Further properties of the synthesis loop *)

\* C32: at every step of the synthesis loop survivors and killed are
\* disjoint, killed never loses a state, and a state that is killed is not
\* inserted into survivors afterwards
C32_DisjointKilled ==
    /\ [](InLoop => (DOMAIN c) \cap rmtable = {})
    /\ [][(InLoop /\ InLoop') =>
            /\ rmtable \subseteq rmtable'
            /\ ((DOMAIN c') \ (DOMAIN c)) \cap (rmtable \cup rmtable') = {}
         ]_vars

\* a state that was expanded is killed while other survivors are kept
C32_Witness ==
    /\ pc = "loop"
    /\ Range(expanded) \cap rmtable # {}
    /\ DOMAIN c # {}

\* C34: the two masks of uncontrollable events SupervisorSynth computes are
\* equal, non_contr_bit = p_non_contr_bit, so an uncontrollable event of
\* the alphabet of the specification alone is in neither
C34_MasksEqual ==
    pc # "start" =>
      /\ non_contr_bit = p_non_contr_bit
      /\ non_contr_bit = aNonContr \cap aP.events_
      /\ non_contr_bit \cap (aE.events_ \ aP.events_) = {}

\* the masks are computed and not empty, with an uncontrollable event of
\* the specification alone and one of the plant alone
C34_Witness ==
    /\ pc = "loop"
    /\ non_contr_bit # {}
    /\ aNonContr \cap (aE.events_ \ aP.events_) # {}
    /\ aNonContr \cap (aP.events_ \ aE.events_) # {}


-----------------------------------------------------------------------------
(* Soundness of the inverse queries of a virtual product *)

\* C35: every state p that InvTrans(q, e) of a virtual product returns has
\* Trans(p, e) = q, the returned list holds no state twice, and
\* ContainsInvTrans(q, e) is true exactly when InvTrans(q, e) is not empty,
\* which is exactly when e is an event of GetInvStateEvents(q)
C35_InverseSound ==
    /\ (inv_allocated /\ qret.fn = "InvTrans") =>
         /\ \A i \in 1..Len(qret.ret) :
              Trans(qsys, qret.ret[i], qret.e) = qret.q
         /\ NoDuplicate(qret.ret)
         /\ (qret.ret # << >>) = ContainsInvTrans(qsys, qret.q, qret.e)
         /\ (qret.ret # << >>)
              = (qret.e \in GetInvStateEvents(qsys, qret.q))
    /\ (inv_allocated /\ qret.fn = "ContainsInvTrans") =>
         /\ qret.ret = (InvTrans(qsys, qret.q, qret.e) # << >>)
         /\ qret.ret = (qret.e \in GetInvStateEvents(qsys, qret.q))

\* InvTrans of a product gave several predecessors for an event of both
\* operands, the state having several predecessors in the left operand
C35_Witness ==
    /\ inv_allocated
    /\ qret.fn = "InvTrans"
    /\ qret.e \in QX.events_ \cap QY.events_
    /\ Len(qret.ret) >= 2
    /\ Len(InvTrans(QX, XPart(qret.q), qret.e)) >= 2


-----------------------------------------------------------------------------
(* Termination of GenBinExprTree *)

\* C36: GenBinExprTree terminates on every input list, the empty list
\* included: every call reaches its return statement
C36_Terminates == (pc = "tree_leaves") ~> (pc = "tree_done")


-----------------------------------------------------------------------------
(* Closure of the survivors when the main loop ends *)

\* the test of while (!f.empty()) fails: the main loop is over
LoopExit == pc = "loop" /\ f = << >>

\* C33: when the frontier is empty, for every survivor q every recorded
\* target is the target Trans(q, e) in virtualsys and is a survivor or
\* killed; the target of every uncontrollable event of the plant alphabet
\* enabled at q in virtualsys is a survivor; and every uncontrollable event
\* the plant enables at the plant component of q is enabled at q in
\* virtualsys
C33_ClosureAtExit ==
    LoopExit =>
      \A q \in DOMAIN c :
        /\ \A i \in 1..Len(c[q]) :
             /\ c[q][i][1] = Trans(virtualsys, q, c[q][i][2])
             /\ c[q][i][1] \in (DOMAIN c) \cup rmtable
        /\ \A e \in aNonContr \cap aP.events_ :
             ContainsTrans(virtualsys, q, e) =>
               Trans(virtualsys, q, e) \in DOMAIN c
        /\ \A e \in aNonContr \cap aP.events_ :
             ContainsTrans(aP, q % aP.states_number_, e) =>
               ContainsTrans(virtualsys, q, e)

\* the loop is over with a survivor at which an uncontrollable event of the
\* plant is enabled and a survivor with a recorded transition to a killed
\* state
C33_Witness ==
    /\ LoopExit
    /\ \E q \in DOMAIN c :
         \E e \in aNonContr \cap aP.events_ :
           ContainsTrans(virtualsys, q, e)
    /\ \E q \in DOMAIN c :
         \E i \in 1..Len(c[q]) : c[q][i][1] \in rmtable


-----------------------------------------------------------------------------
(* The set TrimStates computes *)

\* the step on which Trim has computed TrimStates of sys
TrimStatesReturns == pc = "trim" /\ pc' = "done"

\* C37: the set TrimStates computes for a concrete automaton is empty or
\* contains the initial state of the automaton, and it is empty exactly
\* when no marked state is reachable from the initial state
C37_TrimStatesHasInit ==
    [][TrimStatesReturns =>
         LET T == Range(trimstates')
         IN  /\ T = {} \/ sys.init_state_ \in T
             /\ T = {} <=>
                  Forward(sys.graph_, {sys.init_state_})
                    \cap sys.marked_states_ = {}
      ]_vars


-----------------------------------------------------------------------------
(* SupervisorSynth as a function, and its runs in any order of exploration *)

\* RemoveBadStates, lines 183-211 run to the end: the killed states when
\* the stack of the call is empty
RECURSIVE RemoveBadStates(_, _, _, _)
RemoveBadStates(aVirtualSys, aNonContrBit, stack, aRmTable) ==
    IF stack = << >> THEN aRmTable
    ELSE LET x == Top(stack)
             q_events == GetInvStateEvents(aVirtualSys, x) \cap aNonContrBit
             r == VisitInvEvents(aVirtualSys, x, SetToSeq(q_events),
                                 Pop(stack), aRmTable)
         IN  RemoveBadStates(aVirtualSys, aNonContrBit, r.stack, r.rm)

\* the main loop, lines 252-288 run to the end in the order of the code
\* (the top of the stack, the events ascending): the survivors with their
\* recorded transitions when the frontier is empty
RECURSIVE SynthLoop(_, _, _, _, _, _, _)
SynthLoop(V, P, pncb, ncb, stack, cmap, rm) ==
    IF stack = << >> THEN cmap
    ELSE LET q == Top(stack)
         IN  IF q \in rm \/ q \in DOMAIN cmap
             THEN SynthLoop(V, P, pncb, ncb, Pop(stack), cmap, rm)
             ELSE IF IsBadState(V, P, q, pncb)
             THEN LET rm2 == RemoveBadStates(V, ncb, <<q>>, rm \cup {q})
                  IN  SynthLoop(V, P, pncb, ncb, Pop(stack),
                                EraseKeys(cmap, rm2 \ rm), rm2)
             ELSE LET events == SetToSeq(GetStateEvents(V, q))
                      c2 == [k \in (DOMAIN cmap) \cup {q} |->
                               IF k = q THEN RecordedTrans(V, q, events)
                               ELSE cmap[k]]
                  IN  SynthLoop(V, P, pncb, ncb,
                                PushSuccessors(V, q, events, Pop(stack),
                                               DOMAIN c2, rm),
                                c2, rm)

\* the automata SupervisorSynth(P, E, NonContr) can return: the survivors
\* of the main loop, materialised and trimmed
SupervisorSynth(P, E, NonContr) ==
    LET V    == SuperProxy(P, E)
        pncb == {event \in NonContr : event \in P.events_}
        ncb  == {event \in pncb : event \in V.events_}
        cmap == SynthLoop(V, P, pncb, ncb, <<V.init_state_>>, << >>, {})
        S    == ConvertToDESystem(V, DOMAIN cmap, cmap)
    IN  {TrimSystem(S, TrimStatesOf(S, o.acc)) :
           o \in {a \in AccessibleOutcomes(S) : ~a.abort}}

\* the sequence s without its entry i
RemoveAt(s, i) == SubSeq(s, 1, i - 1) \o SubSeq(s, i + 1, Len(s))

\* one iteration of the main loop on the entry i of f instead of its top
SynthLoopStepAt(i) ==
    /\ pc = "loop"
    /\ LET q == f[i]
       IN  IF q \in rmtable \/ q \in DOMAIN c
           THEN /\ f' = RemoveAt(f, i)
                /\ UNCHANGED <<c, rmtable, rf, pc, histvars>>
           ELSE IF IsBadState(virtualsys, aP, q, p_non_contr_bit)
           THEN /\ f' = RemoveAt(f, i)
                /\ rf' = <<q>>
                /\ rmtable' = rmtable \cup {q}
                /\ pc' = "remove"
                /\ kill_pushed' = Append(kill_pushed, q)
                /\ at_call' = [aQ |-> q, aC |-> c, aRmTable |-> rmtable]
                /\ UNCHANGED <<c, expanded>>
           ELSE LET events == SetToSeq(GetStateEvents(virtualsys, q))
                IN  /\ c' = [k \in (DOMAIN c) \cup {q} |->
                               IF k = q
                               THEN RecordedTrans(virtualsys, q, events)
                               ELSE c[k]]
                    /\ f' = PushSuccessors(virtualsys, q, events,
                                           RemoveAt(f, i),
                                           (DOMAIN c) \cup {q}, rmtable)
                    /\ expanded' = Append(expanded, q)
                    /\ UNCHANGED <<rmtable, rf, pc, kill_pushed, at_call>>
    /\ UNCHANGED <<aP, aE, aNonContr, virtualsys, non_contr_bit,
                   p_non_contr_bit, inv_allocated, virtual_states_,
                   transtriplet_, statesmap, trimstates, sys, qsys, qret,
                   law, returned, treevars>>

\* the main loop popping any entry of the frontier; the order of the
\* events of q is the order of the pushes, which any pop makes irrelevant
SynthLoopAnyOrder ==
    /\ pc = "loop"
    /\ \E i \in 1..Len(f) : SynthLoopStepAt(i)

\* one iteration of the loop of RemoveBadStates on the entry i of its stack
RemoveBadStatesStepAt(i) ==
    /\ pc = "remove"
    /\ LET x == rf[i]
           q_events == GetInvStateEvents(virtualsys, x) \cap non_contr_bit
           r == VisitInvEvents(virtualsys, x, SetToSeq(q_events),
                               RemoveAt(rf, i), rmtable)
       IN  /\ rf' = r.stack
           /\ rmtable' = r.rm
           /\ c' = EraseKeys(c, r.rm \ rmtable)
           /\ kill_pushed' = kill_pushed
                               \o SubSeq(r.stack, Len(rf), Len(r.stack))
           /\ pc' = IF r.stack = <<>> THEN "loop" ELSE "remove"
    /\ UNCHANGED <<aP, aE, aNonContr, virtualsys, non_contr_bit,
                   p_non_contr_bit, f, inv_allocated, virtual_states_,
                   transtriplet_, statesmap, trimstates, sys, qsys, qret,
                   law, returned, expanded, at_call, treevars>>

\* the loop of RemoveBadStates popping any entry of its stack; the order of
\* the predecessors is the order of the pushes
RemoveBadStatesAnyOrder ==
    /\ pc = "remove"
    /\ \E i \in 1..Len(rf) : RemoveBadStatesStepAt(i)

\* a plant of one state that enables a0, a1 and b0 for ever
FreePlant ==
    DESystem(1, 0, {0}, {a0, a1, b0},
             {<<0, a0, 0>>, <<0, a1, 0>>, <<0, b0, 0>>})

\* the transitions of the specifications of the runs in any order
OrderTransitions ==
    {<<0, b0, 0>>, <<0, a0, 1>>, <<0, a1, 2>>,
     <<1, b0, 2>>, <<1, a0, 3>>, <<3, b0, 3>>}

\* the arguments of the runs in any order: the plant is free, the
\* specification has four states and some of the transitions above, all
\* three events in its alphabet
OrderInputs ==
    {<<FreePlant, DESystem(4, 0, marked, {a0, a1, b0}, g), U>> :
       marked \in {{0}, {0, 3}, {2}},
       g \in SUBSET OrderTransitions,
       U \in {{b0}, {a0, b0}}}

InitOrder ==
    /\ \E in \in OrderInputs :
         /\ aP = in[1]
         /\ aE = in[2]
         /\ aNonContr = in[3]
    /\ law = "none"
    /\ returned = << >>
    /\ SynthEntry

NextOrder ==
    \/ SynthStart
    \/ SynthLoopAnyOrder
    \/ RemoveBadStatesAnyOrder
    \/ SynthLoopExit
    \/ SynthConvert
    \/ SynthTrim

SpecOrder == InitOrder /\ [][NextOrder]_vars

\* the function returns what the steps of a run in the order of the code
\* return
SynthAsFunction == pc = "done" => sys \in SupervisorSynth(aP, aE, aNonContr)

=============================================================================
